---- MODULE Spec2Model ----
(***************************************************************************)
(* Activation-Energy graph retriever (backend/src/memory_graph/            *)
(* graph_retriever.py): the concurrent explorer (explore), the per-seed    *)
(* retry wrapper (_explore_with_retry) and the multi-path BFS              *)
(* (_explore_single._run) over a property graph read through the           *)
(* expansion query _EXPAND_QUERY.                                          *)
(*                                                                         *)
(* Numbers.  transfer_energy = (a * w / sqrt(d)) * tag_sim contains a      *)
(* square root, so every activation / transfer energy is carried as its    *)
(* exact SQUARE, a normalised rational <<num, den>>.  All energies are     *)
(* >= 0, hence x > y  <=>  x^2 > y^2 and the ORDER BY and the threshold    *)
(* filter are decided exactly on the squares.  Weights, tag_sim and the    *)
(* floor are plain (unsquared) rationals.                                  *)
(*                                                                         *)
(* Attempts.  An attempt is one call of _explore_single by the loop of     *)
(* _explore_with_retry.  session.execute_read may re-run _run inside one   *)
(* attempt (driver-level transient retries); those re-runs start _run      *)
(* from scratch, are invisible to the retry loop and are not counted.  A   *)
(* StoreError step is an exception that execute_read lets through to       *)
(* _explore_with_retry.  max_depth, max_branches and max_retries range     *)
(* over naturals, 0 included; __init__ validates none of them.             *)
(***************************************************************************)
EXTENDS Integers, Naturals, Sequences, FiniteSets, TLC

\* ------------------------------------------------------------------------
\* Bounds of the model
\* ------------------------------------------------------------------------
MaxDepthBound == 2
MaxBranchesBound == 2
MaxRetriesBound == 1
MaxPaths == 2
MaxQueryLen == 3
MaxLimit == 2
NumSeeds == 2

\* ------------------------------------------------------------------------
\* Exact rationals <<num, den>>, den > 0
\* ------------------------------------------------------------------------
RECURSIVE GCD(_, _)
GCD(a, b) == IF b = 0 THEN a ELSE GCD(b, a % b)

Norm(r) ==
    IF r[1] = 0 THEN <<0, 1>>
    ELSE LET g == GCD(r[1], r[2]) IN <<r[1] \div g, r[2] \div g>>

RMul(x, y) == Norm(<<x[1] * y[1], x[2] * y[2]>>)
RAdd(x, y) == Norm(<<x[1] * y[2] + y[1] * x[2], x[2] * y[2]>>)
RSub(x, y) == Norm(<<x[1] * y[2] - y[1] * x[2], x[2] * y[2]>>)
RDivInt(x, n) == Norm(<<x[1], x[2] * n>>)
RSq(x) == RMul(x, x)
RGt(x, y) == x[1] * y[2] > y[1] * x[2]
RGe(x, y) == x[1] * y[2] >= y[1] * x[2]
ROne == <<1, 1>>

\* ------------------------------------------------------------------------
\* Defaults and configuration values
\* ------------------------------------------------------------------------
\* r.weight is optional on an edge; NoWeight stands for the missing property
NoWeight == <<0, 0>>
\* coalesce(r.weight, 0.01)
DEFAULT_EDGE_WEIGHT == <<1, 100>>
\* min_activation = 1/8, carried as its square
MinActivationSq == <<1, 64>>
\* min_activation = 1/200, low enough for a hop over an edge without weight
LowMinActivationSq == <<1, 40000>>
\* tag_sim_floor
TagSimFloor == <<1, 2>>
\* the id no node carries (a seed that the seed query does not find)
MissingId == 9

\* ------------------------------------------------------------------------
\* The store: a multigraph of RELATES edges over node ids 1..8.  Every edge
\* is stored with a direction (src -> dst) and is traversed both ways.
\* ------------------------------------------------------------------------
NodeIds == 1 .. 8

Edge(id, s, d, w, tags) == [id |-> id, src |-> s, dst |-> d, weight |-> w, tags |-> tags]

EdgeUniverse ==
    { Edge(1, 1, 2, <<1, 1>>, <<"a">>),
      Edge(2, 3, 1, <<1, 1>>, <<>>),
      Edge(3, 2, 4, <<1, 2>>, <<"a", "b">>),
      Edge(4, 3, 4, <<1, 1>>, <<"a">>),
      Edge(5, 2, 3, <<1, 1>>, <<>>),
      Edge(6, 1, 2, <<1, 2>>, <<"b">>),
      Edge(7, 2, 2, <<1, 1>>, <<>>),
      Edge(8, 4, 1, <<1, 1>>, <<"a">>) }

\* two parents (2 and 3) with more neighbours than a branch cap of 2 admits
\* and one neighbour in common (6)
FanGraph ==
    { Edge(11, 1, 2, <<1, 1>>, <<>>), Edge(12, 1, 3, <<1, 1>>, <<>>),
      Edge(13, 2, 4, <<1, 1>>, <<>>), Edge(14, 2, 5, <<1, 1>>, <<>>),
      Edge(15, 2, 6, <<1, 2>>, <<>>), Edge(16, 6, 3, <<1, 1>>, <<>>),
      Edge(17, 4, 5, NoWeight, <<>>) }

\* the same with both parents over the cap before their common neighbour (8)
DoubleFanGraph ==
    { Edge(21, 1, 2, <<1, 1>>, <<>>), Edge(22, 1, 3, <<1, 1>>, <<>>),
      Edge(23, 2, 4, <<1, 1>>, <<>>), Edge(24, 2, 5, <<1, 1>>, <<>>),
      Edge(25, 2, 8, <<1, 2>>, <<>>), Edge(26, 3, 6, <<1, 1>>, <<>>),
      Edge(27, 3, 7, <<1, 1>>, <<>>), Edge(28, 8, 3, <<1, 2>>, <<>>) }

\* a seed of degree 4 whose edges give transfer energies above, at and below
\* min_activation = 1/8: 1/2, 1/8, 1/4, 1/16 without query tags and half of
\* each with query tags (the edges carry no tag, so tag_sim is the floor 1/2)
ThresholdGraph ==
    { Edge(31, 1, 2, <<1, 1>>, <<>>), Edge(32, 1, 3, <<1, 4>>, <<>>),
      Edge(33, 1, 4, <<1, 2>>, <<>>), Edge(34, 1, 5, <<1, 8>>, <<>>) }

\* edges whose tag array names the same tag more than once
RepeatedTagGraph ==
    { Edge(41, 1, 2, <<1, 1>>, <<"a", "a">>), Edge(42, 2, 3, <<1, 1>>, <<"a", "a", "b">>),
      Edge(43, 1, 4, <<1, 2>>, <<"b", "b">>) }

\* two parents (2, then 3) with the common neighbour 4: it is the best
\* candidate of both, and parent 3 has two more neighbours
SkipGraph ==
    { Edge(61, 1, 2, <<1, 1>>, <<>>), Edge(62, 1, 3, <<1, 2>>, <<>>),
      Edge(63, 2, 4, <<1, 1>>, <<>>), Edge(64, 3, 4, <<1, 1>>, <<>>),
      Edge(65, 3, 5, <<3, 4>>, <<>>), Edge(66, 3, 6, <<3, 4>>, <<>>) }

\* a chain whose first edge carries no weight
WeightlessGraph == { Edge(51, 1, 2, NoWeight, <<>>), Edge(52, 2, 3, <<1, 1>>, <<>>) }

Graphs ==
    (SUBSET EdgeUniverse)
    \cup { FanGraph, DoubleFanGraph, ThresholdGraph, RepeatedTagGraph, SkipGraph }

QueryTagChoices == { <<>>, <<"a">> }

\* ------------------------------------------------------------------------
\* _EXPAND_QUERY
\* ------------------------------------------------------------------------
Incident(g, n) == { e \in g : e.src = n \/ e.dst = n }

\* the degree counted over outgoing edges only
DegreeOutgoing(g, n) == Cardinality({ e \in g : e.src = n })

\* COUNT { (current)-[:RELATES]-() }
Degree(g, n) == Cardinality(Incident(g, n))

Other(e, n) == IF e.src = n THEN e.dst ELSE e.src

InList(t, s) == \E i \in 1 .. Len(s) : s[i] = t

\* size([t IN eTags WHERE t IN $query_tags])
InterCount(eTags, qTags) == Cardinality({ i \in 1 .. Len(eTags) : InList(eTags[i], qTags) })

\* CASE WHEN $query_tags_count = 0 THEN 1.0 WHEN size(eTags) = 0 THEN floor ELSE ...
TagSim(eTags, qTags, floor) ==
    IF Len(qTags) = 0 THEN ROne
    ELSE IF Len(eTags) = 0 THEN floor
    ELSE LET ic == InterCount(eTags, qTags)
             un == Len(eTags) + Len(qTags) - ic
         IN RAdd(floor, RDivInt(RMul(RSub(ROne, floor), <<ic, 1>>), un))

Coalesce(w) == IF w = NoWeight THEN DEFAULT_EDGE_WEIGHT ELSE w

\* (activation * coalesce(r.weight, 0.01) / sqrt(degree)) * tag_sim, squared
TransferEnergySq(actSq, w, degree, ts) ==
    RMul(RDivInt(RMul(actSq, RSq(Coalesce(w))), degree), RSq(ts))

\* the filter with >= in place of >
AtOrAboveThreshold(teSq, minSq) == RGe(teSq, minSq)

\* WHERE transfer_energy > $min_threshold
AboveThreshold(teSq, minSq) == RGt(teSq, minSq)

\* the query without its visited filter
NotVisitedIgnored(n, visited) == TRUE

\* WHERE NOT neighbor.id IN $visited_ids
NotVisited(n, visited) == n \notin visited

\* the rows of the query before ORDER BY, one per (frontier entry, incident edge)
CandidateRows(g, frontier, visited, qTags, floor, minSq) ==
    { r \in UNION { { [ parent_id |-> frontier[i].node_id,
                        neighbor_id |-> Other(e, frontier[i].node_id),
                        edge_id |-> e.id,
                        transfer_energy |->
                            TransferEnergySq(frontier[i].activation, e.weight,
                                             Degree(g, frontier[i].node_id),
                                             TagSim(e.tags, qTags, floor)) ]
                      : e \in Incident(g, frontier[i].node_id) }
                    : i \in 1 .. Len(frontier) } :
        /\ NotVisited(r.neighbor_id, visited)
        /\ AboveThreshold(r.transfer_energy, minSq) }

\* ORDER BY parent_id, transfer_energy without DESC
PrecedesAscending(r, s) ==
    \/ r.parent_id < s.parent_id
    \/ r.parent_id = s.parent_id /\ RGe(s.transfer_energy, r.transfer_energy)

\* ORDER BY parent_id, transfer_energy DESC: r may come first among rows
Precedes(r, s) ==
    \/ r.parent_id < s.parent_id
    \/ r.parent_id = s.parent_id /\ RGe(r.transfer_energy, s.transfer_energy)

\* every sequence the ORDER BY may return (rows that tie come in any order)
RECURSIVE OrderedRecords(_)
OrderedRecords(rows) ==
    IF rows = {} THEN { <<>> }
    ELSE UNION { { <<r>> \o rest : rest \in OrderedRecords(rows \ {r}) }
                 : r \in { x \in rows : \A y \in rows : Precedes(x, y) } }

ExpandQuery(g, frontier, visited, qTags, floor, minSq) ==
    OrderedRecords(CandidateRows(g, frontier, visited, qTags, floor, minSq))

\* ------------------------------------------------------------------------
\* _explore_single._run: one depth iteration
\* ------------------------------------------------------------------------
\* candidates_by_parent.get(f_node.node_id, [])
CandidatesByParent(records, pid) == SelectSeq(records, LAMBDA r : r.parent_id = pid)

PathStep(cand) ==
    [node |-> cand.neighbor_id, edge |-> cand.edge_id, transfer_energy |-> cand.transfer_energy]

FrontierNode(id, act, path) == [node_id |-> id, activation |-> act, path |-> path]

ExploredPath(steps) ==
    [steps |-> steps, depth |-> Len(steps), final_energy |-> steps[Len(steps)].transfer_energy]

\* the cap tested one branch late
BranchCapOffByOne(branch_count, max_branches) == branch_count > max_branches

\* if branch_count >= max_branches: break
BranchCapReached(branch_count, max_branches) == branch_count >= max_branches

\* no same-depth claim check
AlreadyClaimedIgnored(neighbor_id, newly_visited) == FALSE

\* if neighbor_id in newly_visited: continue
AlreadyClaimed(neighbor_id, newly_visited) == neighbor_id \in newly_visited

\* the loop with a skipped candidate counted as a branch
RECURSIVE BranchLoopSkipCounts(_, _, _, _, _)
BranchLoopSkipCounts(f_node, candidates, k, max_branches, acc) ==
    IF k > Len(candidates) \/ acc.branch_count >= max_branches THEN acc
    ELSE LET cand == candidates[k] IN
         IF cand.neighbor_id \in acc.newly_visited
         THEN BranchLoopSkipCounts(f_node, candidates, k + 1, max_branches,
                  [ acc EXCEPT !.branch_count = @ + 1 ])
         ELSE BranchLoopSkipCounts(f_node, candidates, k + 1, max_branches,
                  [ next_frontier |-> Append(acc.next_frontier,
                        FrontierNode(cand.neighbor_id, cand.transfer_energy,
                                     Append(f_node.path, PathStep(cand)))),
                    newly_visited |-> acc.newly_visited \cup {cand.neighbor_id},
                    branch_count |-> acc.branch_count + 1 ])

\* for cand in candidates: ... ; acc = [next_frontier, newly_visited, branch_count]
RECURSIVE BranchLoop(_, _, _, _, _)
BranchLoop(f_node, candidates, k, max_branches, acc) ==
    IF k > Len(candidates) THEN acc
    ELSE IF BranchCapReached(acc.branch_count, max_branches) THEN acc
    ELSE LET cand == candidates[k] IN
         IF AlreadyClaimed(cand.neighbor_id, acc.newly_visited)
         THEN BranchLoop(f_node, candidates, k + 1, max_branches, acc)
         ELSE BranchLoop(f_node, candidates, k + 1, max_branches,
                  [ next_frontier |-> Append(acc.next_frontier,
                        FrontierNode(cand.neighbor_id, cand.transfer_energy,
                                     Append(f_node.path, PathStep(cand)))),
                    newly_visited |-> acc.newly_visited \cup {cand.neighbor_id},
                    branch_count |-> acc.branch_count + 1 ])

\* no path is completed inside an iteration
IsDeadEndNever(branch_count, path) == FALSE

\* a path is completed whether or not it was extended
IsDeadEndOrNot(branch_count, path) == path # <<>>

\* if branch_count == 0 and f_node.path: completed_paths.append(...)
IsDeadEnd(branch_count, path) == branch_count = 0 /\ path # <<>>

\* for f_node in frontier: ... ; st = [next_frontier, newly_visited, completed_paths]
RECURSIVE FrontierLoop(_, _, _, _, _)
FrontierLoop(frontier, records, i, max_branches, st) ==
    IF i > Len(frontier) THEN st
    ELSE LET f_node == frontier[i]
             res == BranchLoop(f_node, CandidatesByParent(records, f_node.node_id), 1,
                               max_branches,
                               [ next_frontier |-> st.next_frontier,
                                 newly_visited |-> st.newly_visited,
                                 branch_count |-> 0 ])
         IN FrontierLoop(frontier, records, i + 1, max_branches,
                [ next_frontier |-> res.next_frontier,
                  newly_visited |-> res.newly_visited,
                  completed_paths |->
                      IF IsDeadEnd(res.branch_count, f_node.path)
                      THEN Append(st.completed_paths, ExploredPath(f_node.path))
                      ELSE st.completed_paths ])

\* the body of `for _depth in range(max_depth)` after the records arrived
DepthIteration(b, records, max_branches) ==
    LET st == FrontierLoop(b.frontier, records, 1, max_branches,
                  [ next_frontier |-> <<>>, newly_visited |-> {},
                    completed_paths |-> b.completed_paths ])
    IN [ frontier |-> st.next_frontier,
         visited |-> b.visited \cup st.newly_visited,
         completed_paths |-> st.completed_paths,
         depth |-> b.depth + 1 ]

\* no depth cap at all
LoopContinuesUnbounded(depth, frontier, max_depth) == frontier # <<>>

\* one depth iteration too many
LoopContinuesOffByOne(depth, frontier, max_depth) == depth <= max_depth /\ frontier # <<>>

\* while the loop goes on: _depth < max_depth, and `if not frontier: break`
LoopContinues(depth, frontier, max_depth) == depth < max_depth /\ frontier # <<>>

\* for f_node in frontier: if f_node.path: completed_paths.append(...)
RECURSIVE RemainingPaths(_, _)
RemainingPaths(frontier, i) ==
    IF i > Len(frontier) THEN <<>>
    ELSE (IF frontier[i].path # <<>> THEN <<ExploredPath(frontier[i].path)>> ELSE <<>>)
         \o RemainingPaths(frontier, i + 1)

\* max((p.depth for p in completed_paths), default=0)
MaxDepthReached(paths) ==
    IF paths = <<>> THEN 0
    ELSE CHOOSE m \in { paths[k].depth : k \in 1 .. Len(paths) } :
             \A k \in 1 .. Len(paths) : paths[k].depth <= m

\* the ExplorationResult returned after the loop
CompleteResult(seed, b) ==
    LET paths == b.completed_paths \o RemainingPaths(b.frontier, 1)
    IN [ seed_id |-> seed.node_id, seed_score |-> seed.score, seed_found |-> TRUE,
         paths |-> paths, max_depth_reached |-> MaxDepthReached(paths),
         terminated_reason |-> "complete" ]

\* the ExplorationResult returned when seed_record is None
SeedNotFoundResult(seed) ==
    [ seed_id |-> seed.node_id, seed_score |-> seed.score, seed_found |-> FALSE,
      paths |-> <<>>, max_depth_reached |-> 0, terminated_reason |-> "seed_not_found" ]

NoResult ==
    [ seed_id |-> 0, seed_score |-> <<0, 1>>, seed_found |-> FALSE,
      paths |-> <<>>, max_depth_reached |-> 0, terminated_reason |-> "" ]

\* a traversal that starts with nothing visited
InitialTraversalNoneVisited(seed) ==
    [ frontier |-> <<FrontierNode(seed.node_id, seed.score, <<>>)>>,
      visited |-> {},
      completed_paths |-> <<>>,
      depth |-> 0 ]

\* frontier, visited, completed_paths at the start of the traversal
InitialTraversal(seed) ==
    [ frontier |-> <<FrontierNode(seed.node_id, seed.score, <<>>)>>,
      visited |-> {seed.node_id},
      completed_paths |-> <<>>,
      depth |-> 0 ]

\* the locals of _run do not exist outside an attempt
NoTraversal == [ frontier |-> <<>>, visited |-> {}, completed_paths |-> <<>>, depth |-> 0 ]

NoRound == [ frontier |-> <<>>, records |-> <<>> ]

\* the seed lookup taken to find a node whatever the id
SeedExistsAlways(node_id) == TRUE

\* MATCH (n {id: $node_id}): seed_record is not None
SeedExists(node_id) == node_id \in NodeIds

\* a session that is not closed on the way out
SessionLeftOpen(open) == open

\* `async with self._driver.session(...)`: leaving the block closes the session
SessionAfterExit(open) == FALSE

\* asyncio.sleep(0.05 * (2 ** attempt)), in milliseconds
RECURSIVE Pow2(_)
Pow2(n) == IF n = 0 THEN 1 ELSE 2 * Pow2(n - 1)
\* the exponent one too high
BackoffFromOne(attempt) == 50 * Pow2(attempt + 1)

BackoffMs(attempt) == 50 * Pow2(attempt)

\* if attempt < max_retries: await asyncio.sleep(...)
SleepFollows(attempt, max_retries) == attempt < max_retries

\* the loop bound one attempt too far
InRangeOffByOne(attempt, max_retries) == attempt <= max_retries + 1

\* for attempt in range(max_retries + 1)
InRange(attempt, max_retries) == attempt < max_retries + 1

\* ------------------------------------------------------------------------
\* State
\* ------------------------------------------------------------------------
VARIABLES
    graph,        \* the RELATES edges of the store
    cfg,          \* max_depth, max_branches, max_retries, min_activation, tag_sim_floor
    query_tags,   \* explore(seeds, query_tags)
    seeds,        \* explore(seeds, query_tags)
    t_pc,         \* per task: where the task is suspended
    t_attempt,    \* per task: `attempt` of _explore_with_retry
    t_session,    \* per task: its session is open
    t_bfs,        \* per task: frontier, visited, completed_paths, _depth of _run
    t_result,     \* per task: the ExplorationResult _run returned
    t_cancel,     \* per task: task.cancel() was called and is not yet delivered
    t_tries,      \* per task: number of calls of _explore_single so far
    t_sleep,      \* per task: the backoff sleeps taken, in ms
    t_round,      \* per task: frontier and records of the latest depth iteration
    ex_pc,        \* where explore() is
    done_queue,   \* as_completed: tasks in the order they finished
    consumed,     \* as_completed: how many futures explore has taken
    yielded,      \* the results handed to the consumer, in order
    stopped,      \* the consumer closed the stream before it was exhausted
    outputs,      \* the projections written for the collected results
    rv            \* GraphVectorRetriever.retrieve: its call, position and calls made

vars == << graph, cfg, query_tags, seeds, t_pc, t_attempt, t_session, t_bfs, t_result,
           t_cancel, t_tries, t_sleep, t_round, ex_pc, done_queue, consumed, yielded,
           stopped, outputs, rv >>

inputs == << graph, cfg, query_tags, seeds >>
explorer == << ex_pc, consumed, yielded, stopped >>

Tasks == 1 .. Len(seeds)

Seed(node_id) == [ node_id |-> node_id, score |-> ROne ]

Config(d, b, r) ==
    [ max_depth |-> d, max_branches |-> b, max_retries |-> r,
      min_activation |-> MinActivationSq, tag_sim_floor |-> TagSimFloor ]

Configs ==
    { Config(d, b, r) : d \in 0 .. MaxDepthBound, b \in 0 .. MaxBranchesBound,
                        r \in 0 .. MaxRetriesBound }

\* nothing was projected yet
NotWritten == [ written |-> FALSE, d3 |-> <<>>, cypher |-> <<>> ]

\* retrieve is not being called
NotRetrieving ==
    [ pc |-> "none", user_query |-> <<>>, limit |-> 0, candidate_multiplier |-> 0,
      candidate_k |-> 0, calls |-> <<>>, hits |-> <<>>, seeds |-> <<>> ]

Finished(pc) == pc \in {"done", "failed", "cancelled"}
InSession(pc) == pc \in {"seed", "expand", "commit"}

InitTasks ==
    /\ t_pc = [i \in Tasks |-> "none"]
    /\ t_attempt = [i \in Tasks |-> 0]
    /\ t_session = [i \in Tasks |-> FALSE]
    /\ t_bfs = [i \in Tasks |-> NoTraversal]
    /\ t_result = [i \in Tasks |-> NoResult]
    /\ t_cancel = [i \in Tasks |-> FALSE]
    /\ t_tries = [i \in Tasks |-> 0]
    /\ t_sleep = [i \in Tasks |-> <<>>]
    /\ t_round = [i \in Tasks |-> NoRound]
    /\ ex_pc = "start"
    /\ done_queue = <<>>
    /\ consumed = 0
    /\ yielded = <<>>
    /\ stopped = FALSE
    /\ outputs = NotWritten

\* one seed (or none) over every graph of the universe, and over the
\* weightless chain with the low min_activation
Init ==
    /\ \/ /\ graph \in Graphs
          /\ cfg \in { c \in Configs : c.max_retries = MaxRetriesBound }
       \/ /\ graph = WeightlessGraph
          /\ cfg \in { [c EXCEPT !.min_activation = LowMinActivationSq] :
                          c \in { x \in Configs : x.max_retries = MaxRetriesBound } }
    /\ query_tags \in QueryTagChoices
    /\ seeds \in { <<>>, <<Seed(1)>>, <<Seed(MissingId)>> }
    /\ InitTasks
    /\ rv = NotRetrieving

\* a concurrent exploration of NumSeeds seeds, found or missing, over one graph
\* with max_depth = 2, max_branches = 2 and max_retries 0 or 1
\* the diamond 1-2-4-3-1
DiamondGraph == { e \in EdgeUniverse : e.id \in {1, 2, 3, 4} }

SeedChoices == { Seed(1), Seed(MissingId) }

InitExplore ==
    /\ graph = DiamondGraph
    /\ cfg \in { Config(2, 2, r) : r \in {0, 1} }
    /\ query_tags = <<"a">>
    /\ seeds \in [1 .. NumSeeds -> SeedChoices]
    /\ InitTasks
    /\ rv = NotRetrieving

\* to_d3 and to_debug_cypher take any RetrievalResult.  The results drawn
\* here have up to MaxPaths paths, each a simple path from seed 1 over the
\* diamond, with any energy on any step and any seed score; two paths may
\* share a step or meet in a node, as in the tests of the projections.
ScoreChoices == { ROne, <<1, 2>> }

\* 0.7071..., 0.375 and 0.0625 (halfway between 0.062 and 0.063)
EnergyChoices == { <<1, 2>>, <<9, 64>>, <<1, 256>> }

\* the simple paths from node 1, as <<edge id, node reached>> per step
Walks ==
    { << <<1, 2>> >>, << <<1, 2>>, <<3, 4>> >>, << <<2, 3>> >>, << <<2, 3>>, <<4, 4>> >> }

ProjectPaths ==
    UNION { { ExploredPath([ n \in 1 .. Len(w) |->
                  [ node |-> w[n][2], edge |-> w[n][1], transfer_energy |-> en[n] ] ]) :
              en \in [1 .. Len(w) -> EnergyChoices] } : w \in Walks }

ProjectResults(seed) ==
    { CompleteResult(seed, [NoTraversal EXCEPT !.completed_paths = paths]) :
        paths \in UNION { [1 .. n -> ProjectPaths] : n \in 0 .. MaxPaths } }
    \cup { SeedNotFoundResult(seed) }

InitProject ==
    /\ graph = DiamondGraph
    /\ cfg = Config(2, 2, 0)
    /\ query_tags = <<>>
    /\ seeds \in { << [ node_id |-> 1, score |-> sc ] >> : sc \in ScoreChoices }
    /\ \E r \in ProjectResults(seeds[1]) :
          /\ t_result = [i \in Tasks |-> r]
          /\ yielded = << [task |-> 1, result |-> r] >>
    /\ t_pc = [i \in Tasks |-> "done"]
    /\ t_attempt = [i \in Tasks |-> 0]
    /\ t_session = [i \in Tasks |-> FALSE]
    /\ t_bfs = [i \in Tasks |-> NoTraversal]
    /\ t_cancel = [i \in Tasks |-> FALSE]
    /\ t_tries = [i \in Tasks |-> 1]
    /\ t_sleep = [i \in Tasks |-> <<>>]
    /\ t_round = [i \in Tasks |-> NoRound]
    /\ ex_pc = "returned"
    /\ done_queue = << 1 >>
    /\ consumed = 1
    /\ stopped = FALSE
    /\ outputs = NotWritten
    /\ rv = NotRetrieving

\* ------------------------------------------------------------------------
\* GraphVectorRetriever.retrieve (ReasoningBankRetriever.retrieve has the
\* same guards and calls)
\* ------------------------------------------------------------------------
\* queries of up to MaxQueryLen characters, blanks and letters
QueryChoices == UNION { [1 .. n -> {" ", "q"}] : n \in 0 .. MaxQueryLen }

LimitChoices == -1 .. MaxLimit

MultiplierChoices == { -1, 0, 1, 5 }

\* what hybrid_search may return as res[0][0]: hits with a distance and a
\* pointer_to_node, which is empty ("") on some
HitChoices ==
    { <<>>,
      << [ pointer_to_node |-> "T3000", distance |-> <<9, 10>> ] >>,
      << [ pointer_to_node |-> "", distance |-> <<9, 10>> ],
         [ pointer_to_node |-> "T3002", distance |-> <<1, 2>> ] >> }

\* str.strip(): leading and trailing whitespace removed
RECURSIVE LStrip(_)
LStrip(s) == IF s # <<>> /\ Head(s) = " " THEN LStrip(Tail(s)) ELSE s

RECURSIVE RStrip(_)
RStrip(s) ==
    IF s # <<>> /\ s[Len(s)] = " " THEN RStrip(SubSeq(s, 1, Len(s) - 1)) ELSE s

Strip(s) == RStrip(LStrip(s))

\* only the empty query is turned away
IsBlankEmptyOnly(user_query) == user_query = <<>>

\* not user_query or not user_query.strip()
IsBlank(user_query) == user_query = <<>> \/ Strip(user_query) = <<>>

\* limit <= 0
LimitNotPositive(limit) == limit <= 0

IntMax(x, y) == IF x >= y THEN x ELSE y

\* candidate_k = max(limit, limit * max(1, candidate_multiplier))
CandidateK(limit, candidate_multiplier) ==
    IntMax(limit, limit * IntMax(1, candidate_multiplier))

\* the hits with a pointer_to_node, as SeedInput(node_id, score = distance)
ParseHits(hits) ==
    LET kept == SelectSeq(hits, LAMBDA h : h.pointer_to_node # "")
    IN [ k \in 1 .. Len(kept) |->
           [ node_id |-> kept[k].pointer_to_node, score |-> kept[k].distance ] ]

exploration == << inputs, outputs, explorer, t_pc, t_attempt, t_session, t_bfs, t_result, t_cancel,
           t_tries, t_sleep, t_round, done_queue >>

\* the call with its arguments
InitRetrieve ==
    /\ graph = DiamondGraph
    /\ cfg = Config(2, 2, 0)
    /\ query_tags = <<>>
    /\ seeds = <<>>
    /\ InitTasks
    /\ \E q \in QueryChoices, l \in LimitChoices, m \in MultiplierChoices :
          rv = [ NotRetrieving EXCEPT !.pc = "called", !.user_query = q, !.limit = l,
                                      !.candidate_multiplier = m ]

\* the two guards, then candidate_k
RetrieveGuards ==
    /\ rv.pc = "called"
    /\ rv' = IF IsBlank(rv.user_query) \/ LimitNotPositive(rv.limit)
             THEN [ rv EXCEPT !.pc = "returned", !.seeds = <<>> ]
             ELSE [ rv EXCEPT !.pc = "embedding",
                              !.candidate_k = CandidateK(rv.limit, rv.candidate_multiplier) ]
    /\ UNCHANGED exploration

\* dense_vec = await self.create_embedding(user_query): the provider answers,
\* or fails and the RuntimeError leaves retrieve
CreateEmbedding ==
    /\ rv.pc = "embedding"
    /\ \E ok \in BOOLEAN :
          rv' = [ rv EXCEPT !.calls = Append(@, "create_embedding"),
                            !.pc = IF ok THEN "search" ELSE "raised" ]
    /\ UNCHANGED exploration

\* res = await milvus_client.hybrid_search(...): the store answers with hits,
\* or fails
HybridSearch ==
    /\ rv.pc = "search"
    /\ \/ \E hits \in { h \in HitChoices : Len(h) <= rv.limit } :
             rv' = [ rv EXCEPT !.calls = Append(@, "hybrid_search"),
                               !.hits = hits, !.pc = "parse" ]
       \/ rv' = [ rv EXCEPT !.calls = Append(@, "hybrid_search"), !.pc = "raised" ]
    /\ UNCHANGED exploration

\* `if not hits_list: return []`, else the seeds of the hits
ParseAndReturn ==
    /\ rv.pc = "parse"
    /\ rv' = [ rv EXCEPT !.pc = "returned", !.seeds = ParseHits(rv.hits) ]
    /\ UNCHANGED exploration

NextRetrieve == RetrieveGuards \/ CreateEmbedding \/ HybridSearch \/ ParseAndReturn

SpecRetrieve == InitRetrieve /\ [][NextRetrieve]_vars

\* ------------------------------------------------------------------------
\* explore()
\* ------------------------------------------------------------------------
\* `if not seeds: return`, else one task per seed (asyncio.create_task)
ExploreStart ==
    /\ ex_pc = "start"
    /\ IF seeds = <<>>
       THEN /\ ex_pc' = "returned"
            /\ t_pc' = t_pc
       ELSE /\ ex_pc' = "iter"
            /\ t_pc' = [i \in Tasks |-> "ready"]
    /\ UNCHANGED << inputs, rv, outputs, t_attempt, t_session, t_bfs, t_result, t_cancel, t_tries,
                    t_sleep, t_round, done_queue, consumed, yielded, stopped >>

\* the latest finisher first
NextCompletedLatest(queue, taken) == queue[Len(queue) - taken]

\* the future as_completed hands out next: the earliest finisher not yet taken
NextCompleted(queue, taken) == queue[taken + 1]

\* finally: for task in tasks: if not task.done(): task.cancel()
CancelOutstanding(pcs, cancels) ==
    [i \in DOMAIN pcs |-> IF Finished(pcs[i]) THEN cancels[i] ELSE TRUE]

\* no `except Exception` around the await
AwaitOutcomeUncaught(pc) == IF pc = "done" THEN "yield" ELSE "raised"

\* what `await future` brings: the result is yielded, an Exception lands in
\* `except Exception` and the loop goes on, anything else leaves the loop
AwaitOutcome(pc) ==
    IF pc = "done" THEN "yield"
    ELSE IF pc = "failed" THEN "caught"
    ELSE "raised"

\* `result = await future; yield result` / `except Exception: print(...)`
AwaitNext ==
    /\ ex_pc = "iter"
    /\ consumed < Len(done_queue)
    /\ LET i == NextCompleted(done_queue, consumed)
           out == AwaitOutcome(t_pc[i])
       IN
         /\ consumed' = consumed + 1
         /\ yielded' = IF out = "yield"
                       THEN Append(yielded, [task |-> i, result |-> t_result[i]])
                       ELSE yielded
         /\ ex_pc' = IF out = "yield" THEN "yield"
                     ELSE IF out = "caught" THEN "iter" ELSE "gather"
         /\ t_cancel' = IF out = "raised" THEN CancelOutstanding(t_pc, t_cancel)
                        ELSE t_cancel
    /\ UNCHANGED << inputs, rv, outputs, t_pc, t_attempt, t_session, t_bfs, t_result,
                    t_tries, t_sleep, t_round, done_queue, stopped >>

\* the consumer asks for the next result
ConsumerNext ==
    /\ ex_pc = "yield"
    /\ ex_pc' = "iter"
    /\ UNCHANGED << inputs, rv, outputs, t_pc, t_attempt, t_session, t_bfs, t_result, t_cancel,
                    t_tries, t_sleep, t_round, done_queue, consumed, yielded, stopped >>

\* as_completed is exhausted; the finally block runs
StreamExhausted ==
    /\ ex_pc = "iter"
    /\ consumed = Len(seeds)
    /\ t_cancel' = CancelOutstanding(t_pc, t_cancel)
    /\ ex_pc' = "gather"
    /\ UNCHANGED << inputs, rv, outputs, t_pc, t_attempt, t_session, t_bfs, t_result, t_tries,
                    t_sleep, t_round, done_queue, consumed, yielded, stopped >>

\* the consumer closes the stream at a yield, or is cancelled while explore
\* waits for the next future; the finally block runs
ConsumerStop ==
    /\ \/ ex_pc = "yield"
       \/ ex_pc = "iter" /\ consumed < Len(seeds) /\ consumed = Len(done_queue)
    /\ stopped' = TRUE
    /\ t_cancel' = CancelOutstanding(t_pc, t_cancel)
    /\ ex_pc' = "gather"
    /\ UNCHANGED << inputs, rv, outputs, t_pc, t_attempt, t_session, t_bfs, t_result, t_tries,
                    t_sleep, t_round, done_queue, consumed, yielded >>

\* no wait for the tasks
GatherSkipped(pcs) == TRUE

\* await asyncio.gather(*tasks, return_exceptions=True) lets explore go on
GatherDone(pcs) == \A i \in DOMAIN pcs : Finished(pcs[i])

GatherReturn ==
    /\ ex_pc = "gather"
    /\ GatherDone(t_pc)
    /\ ex_pc' = "returned"
    /\ UNCHANGED << inputs, rv, outputs, t_pc, t_attempt, t_session, t_bfs, t_result, t_cancel,
                    t_tries, t_sleep, t_round, done_queue, consumed, yielded, stopped >>

\* ------------------------------------------------------------------------
\* One seed task: _explore_with_retry / _explore_single
\* ------------------------------------------------------------------------
\* _explore_single is entered: the session is opened, the seed query is sent
BeginAttempt(i) ==
    /\ t_session' = [t_session EXCEPT ![i] = TRUE]
    /\ t_tries' = [t_tries EXCEPT ![i] = @ + 1]
    /\ t_pc' = [t_pc EXCEPT ![i] = "seed"]

\* the task runs for the first time: attempt 0
TaskStart(i) ==
    /\ t_pc[i] = "ready"
    /\ ~t_cancel[i]
    /\ BeginAttempt(i)
    /\ UNCHANGED << inputs, rv, outputs, explorer, t_attempt, t_bfs, t_result, t_cancel, t_sleep,
                    t_round, done_queue >>

\* the retry loop is exhausted: `raise last_exc` ends the task
RaiseLast(i) ==
    /\ t_pc' = [t_pc EXCEPT ![i] = "failed"]
    /\ done_queue' = Append(done_queue, i)
    /\ UNCHANGED << t_session, t_tries >>

\* the loop head after a failed attempt: the next attempt, or the raise
NextAttempt(i) ==
    /\ t_attempt' = [t_attempt EXCEPT ![i] = @ + 1]
    /\ IF InRange(t_attempt[i] + 1, cfg.max_retries)
       THEN BeginAttempt(i) /\ done_queue' = done_queue
       ELSE RaiseLast(i)

\* the backoff sleep is over
Wake(i) ==
    /\ t_pc[i] = "sleep"
    /\ ~t_cancel[i]
    /\ NextAttempt(i)
    /\ UNCHANGED << inputs, rv, outputs, explorer, t_bfs, t_result, t_cancel, t_sleep, t_round >>

\* _run up to the first expansion query, or to its return
FetchSeed(i) ==
    /\ t_pc[i] = "seed"
    /\ ~t_cancel[i]
    /\ IF ~SeedExists(seeds[i].node_id)
       THEN /\ t_result' = [t_result EXCEPT ![i] = SeedNotFoundResult(seeds[i])]
            /\ t_pc' = [t_pc EXCEPT ![i] = "commit"]
            /\ t_bfs' = t_bfs
       ELSE LET b == InitialTraversal(seeds[i]) IN
            /\ t_bfs' = [t_bfs EXCEPT ![i] = b]
            /\ IF LoopContinues(b.depth, b.frontier, cfg.max_depth)
               THEN /\ t_pc' = [t_pc EXCEPT ![i] = "expand"]
                    /\ t_result' = t_result
               ELSE /\ t_pc' = [t_pc EXCEPT ![i] = "commit"]
                    /\ t_result' = [t_result EXCEPT ![i] = CompleteResult(seeds[i], b)]
    /\ UNCHANGED << inputs, rv, outputs, explorer, t_attempt, t_session, t_cancel, t_tries, t_sleep,
                    t_round, done_queue >>

\* one visited set for all the tasks
VisitedIdsShared(i, bfs) == UNION { bfs[j].visited : j \in DOMAIN bfs }

\* visited_ids=list(visited): `visited` is a local of the task's own _run
VisitedIds(i, bfs) == bfs[i].visited

\* the records of the expansion query arrive: one depth iteration, then the
\* next query or the return of _run
ExpandRound(i) ==
    /\ t_pc[i] = "expand"
    /\ ~t_cancel[i]
    /\ \E records \in ExpandQuery(graph, t_bfs[i].frontier, VisitedIds(i, t_bfs), query_tags,
                                  cfg.tag_sim_floor, cfg.min_activation) :
         LET b == DepthIteration(t_bfs[i], records, cfg.max_branches) IN
         /\ t_bfs' = [t_bfs EXCEPT ![i] = b]
         /\ t_round' = [t_round EXCEPT ![i] =
                           [frontier |-> t_bfs[i].frontier, records |-> records]]
         /\ IF LoopContinues(b.depth, b.frontier, cfg.max_depth)
            THEN /\ t_pc' = [t_pc EXCEPT ![i] = "expand"]
                 /\ t_result' = t_result
            ELSE /\ t_pc' = [t_pc EXCEPT ![i] = "commit"]
                 /\ t_result' = [t_result EXCEPT ![i] = CompleteResult(seeds[i], b)]
    /\ UNCHANGED << inputs, rv, outputs, explorer, t_attempt, t_session, t_cancel, t_tries, t_sleep,
                    done_queue >>

\* execute_read commits, the session is closed, the task returns its result
Commit(i) ==
    /\ t_pc[i] = "commit"
    /\ ~t_cancel[i]
    /\ t_session' = [t_session EXCEPT ![i] = SessionAfterExit(@)]
    /\ t_pc' = [t_pc EXCEPT ![i] = "done"]
    /\ done_queue' = Append(done_queue, i)
    /\ UNCHANGED << inputs, rv, outputs, explorer, t_attempt, t_bfs, t_result, t_cancel, t_tries,
                    t_sleep, t_round >>

\* a store call raises: the session is closed, `except Exception` sleeps
\* when another attempt follows, else the loop head is reached at once
StoreError(i) ==
    /\ InSession(t_pc[i])
    /\ ~t_cancel[i]
    /\ t_bfs' = [t_bfs EXCEPT ![i] = NoTraversal]
    /\ t_result' = [t_result EXCEPT ![i] = NoResult]
    /\ t_round' = [t_round EXCEPT ![i] = NoRound]
    /\ IF SleepFollows(t_attempt[i], cfg.max_retries)
       THEN /\ t_session' = [t_session EXCEPT ![i] = SessionAfterExit(@)]
            /\ t_pc' = [t_pc EXCEPT ![i] = "sleep"]
            /\ t_sleep' = [t_sleep EXCEPT ![i] = Append(@, BackoffMs(t_attempt[i]))]
            /\ UNCHANGED << t_attempt, t_tries, done_queue >>
       ELSE /\ t_sleep' = t_sleep
            /\ IF InRange(t_attempt[i] + 1, cfg.max_retries)
               THEN /\ t_attempt' = [t_attempt EXCEPT ![i] = @ + 1]
                    /\ t_session' = [t_session EXCEPT ![i] = TRUE]
                    /\ t_tries' = [t_tries EXCEPT ![i] = @ + 1]
                    /\ t_pc' = [t_pc EXCEPT ![i] = "seed"]
                    /\ done_queue' = done_queue
               ELSE /\ t_session' = [t_session EXCEPT ![i] = SessionAfterExit(@)]
                    /\ t_pc' = [t_pc EXCEPT ![i] = "failed"]
                    /\ done_queue' = Append(done_queue, i)
                    /\ UNCHANGED << t_attempt, t_tries >>
    /\ UNCHANGED << inputs, rv, outputs, explorer, t_cancel >>

\* the cancellation caught by the retry loop like a store error
CancelRetried(i) ==
    /\ t_cancel[i]
    /\ ~Finished(t_pc[i])
    /\ t_cancel' = [t_cancel EXCEPT ![i] = FALSE]
    /\ t_bfs' = [t_bfs EXCEPT ![i] = NoTraversal]
    /\ t_result' = [t_result EXCEPT ![i] = NoResult]
    /\ t_round' = [t_round EXCEPT ![i] = NoRound]
    /\ IF t_attempt[i] < cfg.max_retries
       THEN /\ t_attempt' = [t_attempt EXCEPT ![i] = @ + 1]
            /\ t_session' = [t_session EXCEPT ![i] = TRUE]
            /\ t_tries' = [t_tries EXCEPT ![i] = @ + 1]
            /\ t_pc' = [t_pc EXCEPT ![i] = "seed"]
            /\ done_queue' = done_queue
       ELSE /\ t_session' = [t_session EXCEPT ![i] = FALSE]
            /\ t_pc' = [t_pc EXCEPT ![i] = "failed"]
            /\ done_queue' = Append(done_queue, i)
            /\ UNCHANGED << t_attempt, t_tries >>
    /\ UNCHANGED << inputs, rv, outputs, explorer, t_sleep >>

\* CancelledError is raised at the await the task is suspended in; it is no
\* Exception, so the retry loop lets it through
CancelDelivered(i) ==
    /\ t_cancel[i]
    /\ ~Finished(t_pc[i])
    /\ t_session' = [t_session EXCEPT ![i] = SessionAfterExit(@)]
    /\ t_bfs' = [t_bfs EXCEPT ![i] = NoTraversal]
    /\ t_result' = [t_result EXCEPT ![i] = NoResult]
    /\ t_round' = [t_round EXCEPT ![i] = NoRound]
    /\ t_pc' = [t_pc EXCEPT ![i] = "cancelled"]
    /\ t_cancel' = [t_cancel EXCEPT ![i] = FALSE]
    /\ done_queue' = Append(done_queue, i)
    /\ UNCHANGED << inputs, rv, outputs, explorer, t_attempt, t_tries, t_sleep >>

\* ------------------------------------------------------------------------
\* Result projections (models.py, retriever_parser.py, test_output.py)
\* ------------------------------------------------------------------------
GraphNode(id) == [ id |-> id ]

GraphEdge(e) == [ source_id |-> e.src, target_id |-> e.dst, type |-> "RELATES", edge_id |-> e.id ]

GraphStep(from, e, to, te) ==
    [ from_node |-> GraphNode(from), edge |-> GraphEdge(e), to_node |-> GraphNode(to),
      transfer_energy |-> te ]

\* the RetrievalResult of an exploration: every step with the node it leaves,
\* the stored edge and the node it reaches; seed_node is <<>> for nil
ToRetrievalResult(g, r) ==
    [ seed |-> [ node_id |-> r.seed_id, score |-> r.seed_score ],
      seed_node |-> IF r.seed_found THEN << GraphNode(r.seed_id) >> ELSE <<>>,
      paths |-> [ k \in 1 .. Len(r.paths) |->
                    LET p == r.paths[k].steps IN
                    [ steps |-> [ n \in 1 .. Len(p) |->
                          GraphStep(IF n = 1 THEN r.seed_id ELSE p[n - 1].node,
                                    CHOOSE e \in g : e.id = p[n].edge,
                                    p[n].node, p[n].transfer_energy) ] ] ],
      max_depth_reached |-> r.max_depth_reached,
      terminated_reason |-> r.terminated_reason ]

\* seed_id = result.seed_node.id if result.seed_node is not None else result.seed.node_id
SeedIdOf(result) ==
    IF result.seed_node # <<>> THEN result.seed_node[1].id ELSE result.seed.node_id

\* for path in result.paths: for step in path.steps
RECURSIVE AllSteps(_, _)
AllSteps(paths, k) ==
    IF k > Len(paths) THEN <<>> ELSE paths[k].steps \o AllSteps(paths, k + 1)

\* every node is appended, known or not
HasNodeNever(nodes, id) == FALSE

\* node.id in nodes_by_id
HasNode(nodes, id) == \E k \in 1 .. Len(nodes) : nodes[k].id = id

\* the energy of the latest step kept, whatever was there
RMaxLatest(x, y) == y

\* max(x, y) of two energies
RMax(x, y) == IF RGe(x, y) THEN x ELSE y

\* the integer square root of q, between lo and hi: lo * lo <= q < hi * hi
RECURSIVE IsqrtBetween(_, _, _)
IsqrtBetween(q, lo, hi) ==
    IF hi - lo <= 1 THEN lo
    ELSE LET mid == (lo + hi) \div 2
         IN IF mid * mid <= q THEN IsqrtBetween(q, mid, hi) ELSE IsqrtBetween(q, lo, mid)

\* round(value, 3) of the energy whose square is x, in thousandths: the
\* nearest multiple of 0.001, the even one when two are equally near.
\* q is floor(4000000 * x), taken in two steps to stay within 32 bits;
\* n is the least integer with (2n + 1)^2 > 4000000 * x
Round3(x) ==
    LET a == 4000 * x[1]
        rest == (a % x[2]) * 1000
        q == (a \div x[2]) * 1000 + rest \div x[2]
        exact == rest % x[2] = 0
        n == (IsqrtBetween(q, 0, 46340) + 1) \div 2
        tie == exact /\ n > 0 /\ q = (2 * n - 1) * (2 * n - 1)
    IN IF tie /\ n % 2 = 1 THEN n - 1 ELSE n

\* max(x, y) of two rounded energies
IMax(x, y) == IF x >= y THEN x ELSE y

\* _create_d3_node: id, is_seed and, unless activation is None (<<>>),
\* retrieval_activation = round(activation, 3)
CreateD3Node(node, activation, is_seed) ==
    [ id |-> node.id, is_seed |-> is_seed,
      retrieval_activation |-> IF activation = <<>> THEN <<>>
                               ELSE << Round3(activation[1]) >> ]

\* _create_d3_edge: source, target, edge_id and
\* transfer_energy = round(step.transfer_energy, 3)
CreateD3Edge(step) ==
    [ source |-> step.edge.source_id, target |-> step.edge.target_id,
      edge_id |-> step.edge.edge_id, transfer_energy |-> Round3(step.transfer_energy) ]

\* edge_key = (step.edge.source_id, step.edge.target_id, step.edge.type)
EdgeKey(step) == << step.edge.source_id, step.edge.target_id, step.edge.type >>

\* the loop over the steps; acc = nodes_by_id (in insertion order),
\* activation_by_id, edges_by_key (keys and values in insertion order)
RECURSIVE CollectD3(_, _, _)
CollectD3(steps, k, acc) ==
    IF k > Len(steps) THEN acc
    ELSE LET step == steps[k]
             to == step.to_node.id
             n1 == IF HasNode(acc.nodes, step.from_node.id) THEN acc.nodes
                   ELSE Append(acc.nodes, step.from_node)
             n2 == IF HasNode(n1, to) THEN n1 ELSE Append(n1, step.to_node)
             prev == IF to \in DOMAIN acc.act THEN acc.act[to] ELSE <<0, 1>>
             act == [ id \in DOMAIN acc.act \cup {to} |->
                        IF id = to THEN RMax(prev, step.transfer_energy) ELSE acc.act[id] ]
             known == \E j \in 1 .. Len(acc.keys) : acc.keys[j] = EdgeKey(step)
         IN CollectD3(steps, k + 1,
                [ nodes |-> n2,
                  act |-> act,
                  keys |-> IF known THEN acc.keys ELSE Append(acc.keys, EdgeKey(step)),
                  edges |-> IF known
                            THEN [ j \in 1 .. Len(acc.edges) |->
                                     IF acc.keys[j] = EdgeKey(step)
                                     THEN [ acc.edges[j] EXCEPT
                                              !.transfer_energy =
                                                  IMax(@, Round3(step.transfer_energy)) ]
                                     ELSE acc.edges[j] ]
                            ELSE Append(acc.edges, CreateD3Edge(step)) ])

to_d3(result) ==
    LET seed_id == SeedIdOf(result)
        found == result.seed_node # <<>>
        acc == CollectD3(AllSteps(result.paths, 1), 1,
                   [ nodes |-> IF found THEN << result.seed_node[1] >> ELSE <<>>,
                     act |-> IF found THEN [ id \in {seed_id} |-> result.seed.score ]
                             ELSE [ id \in {} |-> <<0, 1>> ],
                     keys |-> <<>>,
                     edges |-> <<>> ])
    IN [ nodes |-> [ k \in 1 .. Len(acc.nodes) |->
                       CreateD3Node(acc.nodes[k],
                                    IF acc.nodes[k].id \in DOMAIN acc.act
                                    THEN << acc.act[acc.nodes[k].id] >> ELSE <<>>,
                                    acc.nodes[k].id = seed_id) ],
         edges |-> acc.edges ]

\* the id property of a node, character by character: the ids of the tests
\* of to_debug_cypher, one with a double quote, one with a backslash, one
\* with a single quote
IdString(id) ==
    CASE id = 1 -> << "T", "3", "0", "0", "0" >>
      [] id = 2 -> << "T", "3", "0", "0", "2" >>
      [] id = 3 -> << "N", "\"", "1", "2", "3" >>
      [] id = 4 -> << "N", "\\", "4", "5", "6" >>
      [] id = 5 -> << "O", "'", "N" >>
      [] OTHER -> << "N", ToString(id) >>

\* value.replace(old, new) for a character old and the pieces new
RECURSIVE Replace(_, _, _)
Replace(value, old, new) ==
    IF value = <<>> THEN <<>>
    ELSE (IF Head(value) = old THEN new ELSE << Head(value) >>)
         \o Replace(Tail(value), old, new)

\* _quote_cypher_literal: backslashes doubled, then every double quote
\* preceded by a backslash, the whole between double quotes
QuoteCypherLiteral(value) ==
    LET escaped == Replace(Replace(value, "\\", << "\\", "\\" >>), "\"", << "\\", "\"" >>)
    IN << "\"" >> \o escaped \o << "\"" >>

\* _cypher_node_pattern: f"({alias} {{id: {escaped}}})"
CypherNodePattern(alias, node_id) ==
    << "(", alias, " {id: " >> \o QuoteCypherLiteral(node_id) \o << "})" >>

\* sep.join(parts) for a sequence of texts, each a sequence of pieces
RECURSIVE JoinPieces(_, _, _)
JoinPieces(parts, sep, k) ==
    IF k > Len(parts) THEN <<>>
    ELSE (IF k > 1 THEN << sep >> ELSE <<>>) \o parts[k] \o JoinPieces(parts, sep, k + 1)

\* to_debug_cypher: the texts are kept as the pieces they are built from;
\* path_idx and node_idx count from 0
to_debug_cypher(result) ==
    LET seed_id == SeedIdOf(result)
        node_ids(p) == << seed_id >> \o [ n \in 1 .. Len(result.paths[p].steps) |->
                                            result.paths[p].steps[n].to_node.id ]
        path_patterns ==
            [ p \in 1 .. Len(result.paths) |->
                JoinPieces([ n \in 1 .. Len(node_ids(p)) |->
                               CypherNodePattern("n" \o ToString(p - 1) \o "_" \o ToString(n - 1),
                                                 IdString(node_ids(p)[n])) ],
                           "-[:RELATES]-", 1) ]
        name(p) == "p" \o ToString(p - 1)
    IN [ paths_combined |->
             IF path_patterns # <<>>
             THEN << "MATCH " >>
                  \o JoinPieces([ p \in 1 .. Len(path_patterns) |->
                                    << name(p), " = " >> \o path_patterns[p] ], ", ", 1)
                  \o << " RETURN " >>
                  \o JoinPieces([ p \in 1 .. Len(path_patterns) |-> << name(p) >> ], ", ", 1)
             ELSE <<>>,
         individual_paths |->
             [ p \in 1 .. Len(path_patterns) |->
                 << "MATCH ", name(p), " = " >> \o path_patterns[p]
                 \o << " RETURN ", name(p) >> ] ]

\* the stream is over: every collected result is projected
WriteOutputs ==
    /\ ex_pc = "returned"
    /\ ~outputs.written
    /\ outputs' = [ written |-> TRUE,
                    d3 |-> [ idx \in 1 .. Len(yielded) |->
                               to_d3(ToRetrievalResult(graph, yielded[idx].result)) ],
                    cypher |-> [ idx \in 1 .. Len(yielded) |->
                               to_debug_cypher(ToRetrievalResult(graph, yielded[idx].result)) ] ]
    /\ UNCHANGED << inputs, rv, t_pc, t_attempt, t_session, t_bfs, t_result, t_cancel, t_tries,
                    t_sleep, t_round, ex_pc, done_queue, consumed, yielded, stopped >>

TaskStep(i) ==
    \/ TaskStart(i)
    \/ Wake(i)
    \/ FetchSeed(i)
    \/ ExpandRound(i)
    \/ Commit(i)
    \/ StoreError(i)
    \/ CancelDelivered(i)

ExplorerStep ==
    \/ ExploreStart
    \/ AwaitNext
    \/ ConsumerNext
    \/ StreamExhausted
    \/ ConsumerStop
    \/ GatherReturn

Next ==
    \/ ExplorerStep
    \/ \E i \in Tasks : TaskStep(i)
    \/ WriteOutputs

Spec == Init /\ [][Next]_vars

SpecExplore == InitExplore /\ [][Next]_vars

\* the projections applied to any result
SpecProject == InitProject /\ [][WriteOutputs]_vars

\* the event loop does not idle while a task or explore can take a step:
\* every store call and every sleep returns or raises, and the consumer comes
\* back for the next result or closes the stream
Fairness == WF_vars(ExplorerStep \/ \E i \in Tasks : TaskStep(i))

SpecFair == InitExplore /\ [][Next]_vars /\ Fairness

\* ------------------------------------------------------------------------
\* Properties of one exploration
\* ------------------------------------------------------------------------
\* [seed id, step1.to, step2.to, ...]
PathNodeIds(seed_id, steps) == <<seed_id>> \o [k \in 1 .. Len(steps) |-> steps[k].node]

PairwiseDistinct(s) == \A a, b \in 1 .. Len(s) : a # b => s[a] # s[b]

\* every path task i holds: in its frontier, completed, or in its result
PathsOf(i) ==
    { t_bfs[i].frontier[k].path : k \in 1 .. Len(t_bfs[i].frontier) }
    \cup { t_bfs[i].completed_paths[k].steps : k \in 1 .. Len(t_bfs[i].completed_paths) }
    \cup { t_result[i].paths[k].steps : k \in 1 .. Len(t_result[i].paths) }

\* the frontier entry a new entry was expanded from
ParentId(seed_id, path) == IF Len(path) = 1 THEN seed_id ELSE path[Len(path) - 1].node

\* the entries of the frontier that were expanded from parent pid
ChildrenOf(i, pid) ==
    { k \in 1 .. Len(t_bfs[i].frontier) :
        /\ t_bfs[i].frontier[k].path # <<>>
        /\ ParentId(seeds[i].node_id, t_bfs[i].frontier[k].path) = pid }

\* the positions in the expanded frontier of the parents with a candidate for x
ParentsWithCandidate(i, x) ==
    { k \in 1 .. Len(t_round[i].frontier) :
        \E n \in 1 .. Len(t_round[i].records) :
            /\ t_round[i].records[n].parent_id = t_round[i].frontier[k].node_id
            /\ t_round[i].records[n].neighbor_id = x }

\* the entries of the new frontier that stand for node x
EntriesFor(i, x) ==
    { k \in 1 .. Len(t_bfs[i].frontier) : t_bfs[i].frontier[k].node_id = x }

Min(S) == CHOOSE m \in S : \A n \in S : m <= n

\* C1: once a node id is in the visited set no later step ends at it: in
\* every path the node ids [seed, step1.to, ...] are pairwise distinct, and a
\* node that two paths reach is reached at the same depth by the same prefix.
C1_NoNodeRevisited ==
    \A i \in Tasks :
        /\ \A p \in PathsOf(i) : PairwiseDistinct(PathNodeIds(seeds[i].node_id, p))
        /\ \A p, q \in PathsOf(i) : \A j \in 1 .. Len(p), k \in 1 .. Len(q) :
               p[j].node = q[k].node => j = k /\ SubSeq(p, 1, j) = SubSeq(q, 1, k)
        /\ \A y \in 1 .. Len(yielded) : \A k \in 1 .. Len(yielded[y].result.paths) :
               PairwiseDistinct(PathNodeIds(yielded[y].result.seed_id,
                                            yielded[y].result.paths[k].steps))

\* a two-hop path was returned from a graph with a triangle through the seed,
\* a parallel edge and a self-loop
C1_Witness ==
    /\ {1, 2, 5, 6, 7} \subseteq { e.id : e \in graph }
    /\ \E i \in Tasks :
          /\ t_pc[i] = "done"
          /\ t_result[i].max_depth_reached = 2

\* C2 as stated: when two or more frontier parents have a candidate for the
\* same unvisited neighbour, exactly one new frontier entry stands for it and
\* it hangs under the first of these parents in frontier order.
C2_FirstParentAlwaysWins ==
    \A i \in Tasks : \A x \in NodeIds :
        LET ps == ParentsWithCandidate(i, x) IN
        Cardinality(ps) >= 2 =>
            /\ Cardinality(EntriesFor(i, x)) = 1
            /\ \A k \in EntriesFor(i, x) :
                   ParentId(seeds[i].node_id, t_bfs[i].frontier[k].path)
                       = t_round[i].frontier[Min(ps)].node_id

\* the branches parent number k of the expanded frontier was given
BranchesOf(i, k) == ChildrenOf(i, t_round[i].frontier[k].node_id)

\* C2 amended: at most one new frontier entry stands for the neighbour; it
\* hangs under the first parent, in frontier order, that has a candidate for
\* it and has not already taken max_branches branches; every parent with a
\* candidate that comes before it (all of them when there is no entry) has
\* taken exactly max_branches branches.
C2_FirstParentWithRoomWins ==
    \A i \in Tasks : \A x \in NodeIds :
        LET ps == ParentsWithCandidate(i, x)
            es == EntriesFor(i, x)
        IN
        Cardinality(ps) >= 2 =>
            /\ Cardinality(es) <= 1
            /\ \A k \in es : \E w \in ps :
                   /\ ParentId(seeds[i].node_id, t_bfs[i].frontier[k].path)
                          = t_round[i].frontier[w].node_id
                   /\ \A j \in ps : j < w =>
                          Cardinality(BranchesOf(i, j)) = cfg.max_branches
            /\ es = {} =>
                   \A j \in ps : Cardinality(BranchesOf(i, j)) = cfg.max_branches

\* a common neighbour went to the second of two parents because the first
\* had used up its branches
C2_Witness ==
    \E i \in Tasks : \E x \in NodeIds :
        LET ps == ParentsWithCandidate(i, x) IN
        /\ Cardinality(ps) >= 2
        /\ cfg.max_branches >= 1
        /\ \E k \in EntriesFor(i, x) :
               ParentId(seeds[i].node_id, t_bfs[i].frontier[k].path)
                   # t_round[i].frontier[Min(ps)].node_id

\* C3: in every depth iteration each frontier parent contributes at most
\* max_branches entries to the next frontier.
C3_BranchCap ==
    \A i \in Tasks : \A pid \in NodeIds :
        Cardinality(ChildrenOf(i, pid)) <= cfg.max_branches

\* a parent with more distinct candidate neighbours than max_branches was
\* given exactly max_branches branches
C3_Witness ==
    \E i \in Tasks : \E k \in 1 .. Len(t_round[i].frontier) :
        LET cands == CandidatesByParent(t_round[i].records, t_round[i].frontier[k].node_id)
        IN /\ cfg.max_branches >= 1
           /\ Cardinality({ cands[n].neighbor_id : n \in 1 .. Len(cands) }) > cfg.max_branches
           /\ Cardinality(BranchesOf(i, k)) = cfg.max_branches

\* C4: every returned path has length <= max_depth, and max_depth_reached is
\* the length of the longest returned path (0 without paths) and <= max_depth.
ResultWithinDepth(r) ==
    /\ \A k \in 1 .. Len(r.paths) : Len(r.paths[k].steps) <= cfg.max_depth
    /\ r.max_depth_reached <= cfg.max_depth
    /\ \A k \in 1 .. Len(r.paths) : Len(r.paths[k].steps) <= r.max_depth_reached
    /\ IF r.paths = <<>> THEN r.max_depth_reached = 0
       ELSE \E k \in 1 .. Len(r.paths) : Len(r.paths[k].steps) = r.max_depth_reached

C4_DepthCap ==
    /\ \A i \in Tasks : ResultWithinDepth(t_result[i])
    /\ \A y \in 1 .. Len(yielded) : ResultWithinDepth(yielded[y].result)

\* a result whose longest path has max_depth >= 1 steps and whose last
\* frontier could have been expanded further
C4_Witness ==
    \E i \in Tasks :
        /\ t_pc[i] = "done"
        /\ cfg.max_depth >= 1
        /\ t_result[i].max_depth_reached = cfg.max_depth
        /\ CandidateRows(graph, t_bfs[i].frontier, t_bfs[i].visited, query_tags,
                         cfg.tag_sim_floor, cfg.min_activation) # {}

\* ------------------------------------------------------------------------
\* Properties of the concurrent explorer
\* ------------------------------------------------------------------------
\* how often the result of task i was yielded
YieldCount(i) == Cardinality({ y \in 1 .. Len(yielded) : yielded[y].task = i })

YieldedTasks == { yielded[y].task : y \in 1 .. Len(yielded) }

\* the position at which task i finished
QueuePos(i) == CHOOSE n \in 1 .. Len(done_queue) : done_queue[n] = i

\* task i was cancelled while an attempt held its session open
CancelledInSession(i) ==
    /\ t_pc[i] = "cancelled"
    /\ t_tries[i] = t_attempt[i] + 1
    /\ Len(t_sleep[i]) = t_attempt[i]

\* C5: a seed is attempted at most max_retries + 1 times; a success on
\* attempt k yields exactly one result and ends the attempts; max_retries + 1
\* failures yield none.
C5_RetryPolicy ==
    /\ [](\A i \in Tasks :
            /\ t_tries[i] <= cfg.max_retries + 1
            /\ YieldCount(i) <= 1
            /\ YieldCount(i) = 1 => t_pc[i] = "done"
            /\ t_pc[i] = "done" => t_tries[i] = t_attempt[i] + 1
            /\ t_pc[i] = "failed" =>
                   t_tries[i] = cfg.max_retries + 1 /\ YieldCount(i) = 0
            /\ (ex_pc = "returned" /\ ~stopped /\ t_pc[i] = "done") => YieldCount(i) = 1)
    /\ [][\A i \in Tasks :
            Finished(t_pc[i]) => t_tries'[i] = t_tries[i] /\ t_pc'[i] = t_pc[i]]_vars

\* a task succeeded on its second attempt and its result was yielded
C5_Witness ==
    \E i \in Tasks :
        /\ t_pc[i] = "done"
        /\ t_tries[i] = 2
        /\ YieldCount(i) = 1

\* C6: a seed that fails on every attempt leaves the other seeds alone: no
\* task is cancelled unless the consumer stopped, every yielded result is the
\* result of a task that succeeded, no task is yielded twice, and a stream
\* consumed to its end yields exactly the tasks that succeeded.
C6_PartialFailure ==
    /\ Len(yielded) <= Len(seeds)
    /\ \A a, b \in 1 .. Len(yielded) : a # b => yielded[a].task # yielded[b].task
    /\ \A y \in 1 .. Len(yielded) :
          /\ t_pc[yielded[y].task] = "done"
          /\ yielded[y].result = t_result[yielded[y].task]
          /\ yielded[y].result.seed_id = seeds[yielded[y].task].node_id
    /\ ~stopped => \A i \in Tasks : t_pc[i] # "cancelled" /\ ~t_cancel[i]
    /\ (ex_pc = "returned" /\ ~stopped) => YieldedTasks = { i \in Tasks : t_pc[i] = "done" }

\* a task failed for good before another one succeeded and was yielded
C6_Witness ==
    /\ ex_pc = "returned"
    /\ ~stopped
    /\ \E i, j \in Tasks :
          /\ t_pc[i] = "failed"
          /\ j \in YieldedTasks
          /\ QueuePos(i) < QueuePos(j)

\* C7: results are yielded in the order in which the tasks finished.
C7_CompletionOrder ==
    \A a, b \in 1 .. Len(yielded) :
        a < b =>
            /\ \E n \in 1 .. Len(done_queue) : done_queue[n] = yielded[a].task
            /\ \E n \in 1 .. Len(done_queue) : done_queue[n] = yielded[b].task
            /\ QueuePos(yielded[a].task) < QueuePos(yielded[b].task)

\* the second seed of the list finished first and was yielded first
C7_Witness ==
    /\ Len(yielded) >= 2
    /\ yielded[1].task > yielded[2].task

\* C8: when the consumer stops, every unfinished task is cancelled, and
\* explore does not return while a task is unfinished.
C8_JoinBeforeReturn ==
    /\ stopped => \A i \in Tasks : Finished(t_pc[i]) \/ t_cancel[i]
    /\ ex_pc = "returned" => \A i \in Tasks : Finished(t_pc[i]) /\ ~t_cancel[i]

\* explore returned after the consumer stopped with one result in hand and
\* another task was cancelled
C8_Witness ==
    /\ ex_pc = "returned"
    /\ stopped
    /\ yielded # <<>>
    /\ \E i \in Tasks : t_pc[i] = "cancelled"

\* C9: a session is open only inside an attempt; a task that was cancelled
\* or failed has closed it, and none is open once explore has returned.
C9_NoOpenSession ==
    /\ \A i \in Tasks : t_session[i] => InSession(t_pc[i])
    /\ ex_pc = "returned" => \A i \in Tasks : ~t_session[i]

\* explore returned after one task was cancelled with its session open and
\* another one failed
C9_Witness ==
    /\ ex_pc = "returned"
    /\ \E i, j \in Tasks :
          /\ CancelledInSession(i)
          /\ t_pc[j] = "failed"

\* C10: explore ends; no task makes more than max_retries + 1 attempts and no
\* attempt more than max_depth expansion rounds.
C10_Terminates ==
    /\ <>(ex_pc = "returned")
    /\ [](\A i \in Tasks :
            /\ t_tries[i] <= cfg.max_retries + 1
            /\ t_bfs[i].depth <= cfg.max_depth)

\* the stream was consumed to its end: one task used up all its attempts,
\* another one ran max_depth rounds
C10_Witness ==
    /\ ex_pc = "returned"
    /\ ~stopped
    /\ cfg.max_retries >= 1
    /\ \E i, j \in Tasks :
          /\ t_pc[i] = "failed"
          /\ t_tries[i] = cfg.max_retries + 1
          /\ t_pc[j] = "done"
          /\ t_bfs[j].depth = cfg.max_depth

\* ------------------------------------------------------------------------
\* Seed lookup, scoring and ordering
\* ------------------------------------------------------------------------
\* the result fields of a seed that was not found
IsSeedNotFound(r) ==
    /\ r.terminated_reason = "seed_not_found"
    /\ ~r.seed_found
    /\ r.paths = <<>>
    /\ r.max_depth_reached = 0

\* no node of the store carries the id of seed i
SeedMissing(i) == seeds[i].node_id \notin NodeIds

\* C11: a seed the lookup does not find gives a seed_not_found result with no
\* seed node, no paths and max_depth_reached = 0; its task sends no expansion
\* query, the lookup is no failure (no new attempt, no sleep), and the step
\* leaves the other tasks as they are; the found seeds still complete.
C11_SeedNotFound ==
    /\ [](\A i \in Tasks : SeedMissing(i) =>
            /\ t_pc[i] # "expand"
            /\ t_round[i] = NoRound
            /\ t_bfs[i] = NoTraversal
            /\ t_pc[i] \in {"commit", "done"} => IsSeedNotFound(t_result[i])
            /\ \A y \in 1 .. Len(yielded) :
                   yielded[y].task = i => IsSeedNotFound(yielded[y].result))
    /\ []((ex_pc = "returned" /\ ~stopped) =>
            \A j \in Tasks : t_pc[j] = "done" =>
                /\ j \in YieldedTasks
                /\ ~SeedMissing(j) => t_result[j].terminated_reason = "complete")
    /\ [][\A i \in Tasks :
            (SeedMissing(i) /\ t_pc[i] = "seed" /\ t_pc'[i] = "commit") =>
                /\ t_tries'[i] = t_tries[i]
                /\ t_attempt'[i] = t_attempt[i]
                /\ t_sleep'[i] = t_sleep[i]
                /\ \A j \in Tasks \ {i} :
                       /\ t_pc'[j] = t_pc[j]
                       /\ t_bfs'[j] = t_bfs[j]
                       /\ t_result'[j] = t_result[j]
                       /\ t_cancel'[j] = t_cancel[j]]_vars

\* a missing seed and a found seed were explored together: both results were
\* yielded, the first seed_not_found on the first attempt, the second with paths
C11_Witness ==
    /\ ex_pc = "returned"
    /\ ~stopped
    /\ \E i, j \in Tasks :
          /\ SeedMissing(i)
          /\ t_pc[i] = "done" /\ t_tries[i] = 1
          /\ i \in YieldedTasks
          /\ IsSeedNotFound(t_result[i])
          /\ j \in YieldedTasks
          /\ t_result[j].paths # <<>>

\* every step task i holds: in its paths and in the latest records
StepEnergiesOf(i) ==
    UNION { { p[k].transfer_energy : k \in 1 .. Len(p) } : p \in PathsOf(i) }
    \cup { t_round[i].records[n].transfer_energy : n \in 1 .. Len(t_round[i].records) }

\* the edges at node n whose transfer energy from activation act is exactly
\* min_activation
EdgesAtThreshold(n, act) ==
    { e \in Incident(graph, n) :
        TransferEnergySq(act, e.weight, Degree(graph, n),
                         TagSim(e.tags, query_tags, cfg.tag_sim_floor)) = cfg.min_activation }

StepFrom(seed, p, k) == IF k = 1 THEN seed.node_id ELSE p[k - 1].node
StepActivation(seed, p, k) == IF k = 1 THEN seed.score ELSE p[k - 1].transfer_energy

EdgeById(id) == CHOOSE e \in graph : e.id = id

\* te = (a * w / sqrt(d)) * s on the squares of te and a: te = a * w^2 * s^2 / d
EnergyLaw(te, a, w, d, s) ==
    te[1] * (a[2] * w[2] * w[2] * s[2] * s[2] * d) = te[2] * (a[1] * w[1] * w[1] * s[1] * s[1])

\* C13: every step has transfer_energy = (a * w / sqrt(d)) * s with a the
\* activation of its parent, w the edge weight (0.01 when absent), d the number
\* of edges at the parent in either direction, visited neighbours included,
\* and s the tag similarity; a frontier entry carries the transfer_energy of
\* its last step as its activation.
C13_TransferEnergy ==
    \A i \in Tasks :
        /\ \A p \in PathsOf(i) : \A k \in 1 .. Len(p) :
               LET e == EdgeById(p[k].edge)
                   from == StepFrom(seeds[i], p, k)
               IN /\ {from, p[k].node} = {e.src, e.dst}
                  /\ EnergyLaw(p[k].transfer_energy,
                               StepActivation(seeds[i], p, k),
                               IF e.weight = NoWeight THEN <<1, 100>> ELSE e.weight,
                               Cardinality({ x \in graph : x.src = from \/ x.dst = from }),
                               TagSim(e.tags, query_tags, cfg.tag_sim_floor))
        /\ \A k \in 1 .. Len(t_bfs[i].frontier) :
               LET f == t_bfs[i].frontier[k] IN
               f.activation = IF f.path = <<>> THEN seeds[i].score
                              ELSE f.path[Len(f.path)].transfer_energy

\* a returned two-hop path whose first edge has no weight and whose second
\* step starts at a node that also has an edge back to a visited node
C13_Witness ==
    \E i \in Tasks :
        /\ t_pc[i] = "done"
        /\ \E k \in 1 .. Len(t_result[i].paths) :
              LET p == t_result[i].paths[k].steps IN
              /\ Len(p) = 2
              /\ EdgeById(p[1].edge).weight = NoWeight
              /\ p[1].transfer_energy = <<1, 10000>>
              /\ \E x \in graph : x.id # p[2].edge /\ seeds[i].node_id \in {x.src, x.dst}
                                  /\ p[1].node \in {x.src, x.dst}

\* the tags of an array, as a set
TagSet(s) == { s[k] : k \in 1 .. Len(s) }

\* floor + (1 - floor) * |E n Q| / (|E| + |Q| - |E n Q|) over the tag sets E, Q
FlooredJaccard(E, Q, floor) ==
    IF Q = {} THEN ROne
    ELSE IF E = {} THEN floor
    ELSE LET ic == Cardinality(E \cap Q)
             un == Cardinality(E) + Cardinality(Q) - ic
         IN RAdd(floor, RDivInt(RMul(RSub(ROne, floor), <<ic, 1>>), un))

\* the tag similarity the expansion applied on step k of path p: the one
\* factor of transfer_energy that is not a, w or d
StepHasTagSim(i, p, k, s) ==
    LET e == EdgeById(p[k].edge)
        from == StepFrom(seeds[i], p, k)
    IN EnergyLaw(p[k].transfer_energy, StepActivation(seeds[i], p, k),
                 IF e.weight = NoWeight THEN <<1, 100>> ELSE e.weight,
                 Cardinality({ x \in graph : x.src = from \/ x.dst = from }), s)

\* C14: the tag similarity of every step is 1 when there are no query tags,
\* the floor when there are query tags and the edge has none, and
\* floor + (1 - floor) * |E n Q| / (|E| + |Q| - |E n Q|) otherwise; it is the
\* floor whenever Q is not empty and E and Q have no tag in common.
C14_TagSim ==
    \A i \in Tasks : \A p \in PathsOf(i) : \A k \in 1 .. Len(p) :
        LET E == TagSet(EdgeById(p[k].edge).tags)
            Q == TagSet(query_tags)
        IN /\ StepHasTagSim(i, p, k, FlooredJaccard(E, Q, cfg.tag_sim_floor))
           /\ (Q # {} /\ E \cap Q = {}) => StepHasTagSim(i, p, k, cfg.tag_sim_floor)
           /\ Q = {} => StepHasTagSim(i, p, k, ROne)

\* the records that are the first of their neighbour, in the order they came
FirstPerNeighbour(records) ==
    SelectSeq([n \in 1 .. Len(records) |->
                   [rec |-> records[n],
                    first |-> \A m \in 1 .. n - 1 :
                                  records[m].neighbor_id # records[n].neighbor_id]],
              LAMBDA x : x.first)

\* task i has just run the root depth iteration (frontier = [seed])
RootRoundDone(i) ==
    /\ t_pc[i] \in {"expand", "commit", "done"}
    /\ t_bfs[i].depth = 1

\* the steps of `paths` are single steps, non-increasing in transfer_energy
SingleStepsDescending(paths) ==
    /\ \A k \in 1 .. Len(paths) : Len(paths[k]) = 1
    /\ \A k \in 1 .. Len(paths) - 1 :
           paths[k][1].transfer_energy[1] * paths[k + 1][1].transfer_energy[2]
               >= paths[k + 1][1].transfer_energy[1] * paths[k][1].transfer_energy[2]

\* paths = the single steps over cands[1 .. n], in that order
StepsAre(paths, cands, n) ==
    /\ Len(paths) = n
    /\ \A k \in 1 .. n :
           /\ Len(paths[k]) = 1
           /\ paths[k][1].node = cands[k].neighbor_id
           /\ paths[k][1].edge = cands[k].edge_id
           /\ paths[k][1].transfer_energy = cands[k].transfer_energy

FrontierPaths(i) == [k \in 1 .. Len(t_bfs[i].frontier) |-> t_bfs[i].frontier[k].path]
ResultPaths(i) == [k \in 1 .. Len(t_result[i].paths) |-> t_result[i].paths[k].steps]

\* C15 as stated: at the root depth the steps accepted under the seed are the
\* first max_branches candidates in the order the query returned them, in
\* that order; with max_depth = 1 the returned paths are these steps.
C15_FirstCandidatesAccepted ==
    \A i \in Tasks : RootRoundDone(i) =>
        LET recs == t_round[i].records
            n == IF Len(recs) < cfg.max_branches THEN Len(recs) ELSE cfg.max_branches
        IN StepsAre(FrontierPaths(i), recs, n)

\* C15 amended: the accepted steps are the first max_branches candidates
\* among those that are the first candidate for their neighbour (a second
\* candidate for the same neighbour, over a parallel edge, is skipped and
\* takes no branch), in the order the query returned them, hence in
\* non-increasing transfer_energy; with max_depth = 1 the returned paths are
\* these steps in this order.
C15_RootOrder ==
    \A i \in Tasks : RootRoundDone(i) =>
        LET kept == FirstPerNeighbour(t_round[i].records)
            n == IF Len(kept) < cfg.max_branches THEN Len(kept) ELSE cfg.max_branches
            cands == [k \in 1 .. Len(kept) |-> kept[k].rec]
        IN /\ StepsAre(FrontierPaths(i), cands, n)
           /\ SingleStepsDescending(FrontierPaths(i))
           /\ (cfg.max_depth = 1 /\ t_pc[i] \in {"commit", "done"}) =>
                  /\ StepsAre(ResultPaths(i), cands, n)
                  /\ SingleStepsDescending(ResultPaths(i))

\* max_depth = 1: two single-step paths of different transfer energies were
\* returned, and the query had returned a candidate over a parallel edge
C15_Witness ==
    \E i \in Tasks :
        /\ cfg.max_depth = 1
        /\ t_pc[i] = "done"
        /\ Len(t_result[i].paths) = 2
        /\ t_result[i].paths[1].final_energy # t_result[i].paths[2].final_energy
        /\ Len(FirstPerNeighbour(t_round[i].records)) < Len(t_round[i].records)

\* ------------------------------------------------------------------------
\* Independence of the seed tasks
\* ------------------------------------------------------------------------
\* every result _run can return for a traversal that stands at b and runs
\* with no other task around, one per order the query may return ties in
RECURSIVE SoloRuns(_, _)
SoloRuns(seed, b) ==
    IF b.depth < cfg.max_depth /\ b.frontier # <<>>
    THEN UNION { SoloRuns(seed, DepthIteration(b, records, cfg.max_branches)) :
                 records \in ExpandQuery(graph, b.frontier, b.visited, query_tags,
                                         cfg.tag_sim_floor, cfg.min_activation) }
    ELSE { CompleteResult(seed, b) }

\* the results of the seed explored alone
SoloResults(seed) ==
    IF seed.node_id \in NodeIds THEN SoloRuns(seed, InitialTraversal(seed))
    ELSE { SeedNotFoundResult(seed) }

\* C16: the result of a seed is a result of that seed explored alone, under
\* every interleaving with the other tasks and whatever attempt produced it;
\* where the store's answers leave no choice, two tasks of the same seed
\* return the same paths in the same order with the same energies.
C16_Independent ==
    /\ \A i \in Tasks : t_pc[i] \in {"commit", "done"} => t_result[i] \in SoloResults(seeds[i])
    /\ \A y \in 1 .. Len(yielded) : yielded[y].result \in SoloResults(seeds[yielded[y].task])
    /\ \A i, j \in Tasks :
           (/\ t_pc[i] = "done" /\ t_pc[j] = "done"
            /\ seeds[i] = seeds[j]
            /\ Cardinality(SoloResults(seeds[i])) = 1) => t_result[i] = t_result[j]

\* two tasks of the same seed ran together, one of them on its second
\* attempt, and both returned two-hop paths
C16_Witness ==
    \E i, j \in Tasks :
        /\ i # j
        /\ seeds[i] = seeds[j]
        /\ t_pc[i] = "done" /\ t_pc[j] = "done"
        /\ t_tries[i] = 1 /\ t_tries[j] = 2
        /\ t_result[i].max_depth_reached = 2
        /\ t_result[j].paths = t_result[i].paths

\* ------------------------------------------------------------------------
\* Decay, configuration, backoff
\* ------------------------------------------------------------------------
\* 0 < x <= 1 for a rational x
InUnitInterval(x) == x[1] > 0 /\ x[1] <= x[2]

\* C17: with the edge weight and the floor in (0,1] and a parent of degree
\* >= 1, the tag similarity of a step is in (0,1] (the step's energy is at
\* most a * w / sqrt(d)) and its transfer_energy is at most the activation
\* of its parent, for all edge tag arrays and query tag arrays.
C17_ActivationDecay ==
    \A i \in Tasks : \A p \in PathsOf(i) : \A k \in 1 .. Len(p) :
        LET e == EdgeById(p[k].edge)
            w == IF e.weight = NoWeight THEN <<1, 100>> ELSE e.weight
            from == StepFrom(seeds[i], p, k)
            d == Cardinality({ x \in graph : x.src = from \/ x.dst = from })
            a == StepActivation(seeds[i], p, k)
            te == p[k].transfer_energy
        IN (InUnitInterval(w) /\ InUnitInterval(cfg.tag_sim_floor) /\ d >= 1) =>
               /\ te[1] * (a[2] * w[2] * w[2] * d) <= te[2] * (a[1] * w[1] * w[1])
               /\ te[1] * a[2] <= a[1] * te[2]

\* C18: a retriever with max_depth <= 0 or max_branches <= 0 is rejected at
\* construction, so no exploration runs (no task is created, no attempt is
\* made, no result is returned) with a non-positive depth or branch cap.
C18_ConfigValidated ==
    (\/ ex_pc # "start"
     \/ \E i \in Tasks : t_pc[i] # "none" \/ t_tries[i] > 0) =>
        /\ cfg.max_depth > 0
        /\ cfg.max_branches > 0

Projected(idx) == ToRetrievalResult(graph, yielded[idx].result)

StepsOfResult(r) ==
    UNION { { r.paths[k].steps[n] : n \in 1 .. Len(r.paths[k].steps) } : k \in 1 .. Len(r.paths) }

\* the node ids of a result: its seed node and both ends of every step
NodeIdsOfResult(r) ==
    { r.seed_node[k].id : k \in 1 .. Len(r.seed_node) }
    \cup { s.from_node.id : s \in StepsOfResult(r) }
    \cup { s.to_node.id : s \in StepsOfResult(r) }

\* C20: every node id of the seed node and of the steps of a result is in
\* to_d3(r).nodes exactly once (and no other id is), the edge of every step is
\* in to_d3(r).edges, and is_seed holds for exactly one node, the seed, when
\* the seed was found and for no node when it was not.
C20_D3Complete ==
    outputs.written => \A idx \in 1 .. Len(outputs.d3) :
        LET r == Projected(idx)
            d3 == outputs.d3[idx]
            seeds_marked == { k \in 1 .. Len(d3.nodes) : d3.nodes[k].is_seed }
        IN /\ \A id \in NodeIdsOfResult(r) :
                  Cardinality({ k \in 1 .. Len(d3.nodes) : d3.nodes[k].id = id }) = 1
           /\ \A k \in 1 .. Len(d3.nodes) : d3.nodes[k].id \in NodeIdsOfResult(r)
           /\ \A s \in StepsOfResult(r) : \E k \in 1 .. Len(d3.edges) :
                  /\ d3.edges[k].source = s.edge.source_id
                  /\ d3.edges[k].target = s.edge.target_id
                  /\ d3.edges[k].edge_id = s.edge.edge_id
           /\ r.seed_node # <<>> =>
                  /\ Cardinality(seeds_marked) = 1
                  /\ \A k \in seeds_marked : d3.nodes[k].id = r.seed_node[1].id
           /\ r.seed_node = <<>> => seeds_marked = {}

\* a result with two two-hop paths through the same first step was projected:
\* four nodes, three edges, one seed
C20_Witness ==
    /\ outputs.written
    /\ \E idx \in 1 .. Len(outputs.d3) :
          LET r == Projected(idx) IN
          /\ Len(r.paths) = 2
          /\ Len(r.paths[1].steps) = 2 /\ Len(r.paths[2].steps) = 2
          /\ r.paths[1].steps[1] = r.paths[2].steps[1]
          /\ Len(outputs.d3[idx].nodes) = 4
          /\ Len(outputs.d3[idx].edges) = 3

\* ------------------------------------------------------------------------
\* Rounded activations, debug queries
\* ------------------------------------------------------------------------
\* the energies of the steps of r that end at node id
EnergiesInto(r, id) == { s.transfer_energy : s \in { t \in StepsOfResult(r) : t.to_node.id = id } }

\* the greatest of a nonempty set of energies
GreatestOf(es) == CHOOSE x \in es : \A y \in es : x[1] * y[2] >= y[1] * x[2]

\* n thousandths is a multiple of 0.001 nearest to the energy whose square is x
NearestThousandth(n, x) ==
    /\ n >= 0
    /\ (n > 0) => (2 * n - 1) * (2 * n - 1) * x[2] <= 4000000 * x[1]
    /\ 4000000 * x[1] <= (2 * n + 1) * (2 * n + 1) * x[2]

\* n thousandths is the energy whose square is x, exactly
ExactThousandths(n, x) == n * n * x[2] = 1000000 * x[1]

\* C21 (as stated): in to_d3(r) every node other than the seed carries as
\* retrieval_activation exactly the greatest transfer_energy of the steps that
\* end at it, and the seed node carries exactly r.seed.score.
C21_ActivationIsMax ==
    outputs.written => \A idx \in 1 .. Len(outputs.d3) :
        LET r == Projected(idx)
            d3 == outputs.d3[idx]
        IN \A k \in 1 .. Len(d3.nodes) :
              LET node == d3.nodes[k] IN
              IF r.seed_node # <<>> /\ node.id = r.seed_node[1].id
              THEN /\ node.retrieval_activation # <<>>
                   /\ ExactThousandths(node.retrieval_activation[1], r.seed.score)
              ELSE EnergiesInto(r, node.id) # {} =>
                   /\ node.retrieval_activation # <<>>
                   /\ ExactThousandths(node.retrieval_activation[1],
                                       GreatestOf(EnergiesInto(r, node.id)))

\* C21 (amended): in to_d3(r) every node other than the seed carries as
\* retrieval_activation the greatest transfer_energy of the steps that end at
\* it, rounded to 3 decimals, and the seed node carries r.seed.score rounded to
\* 3 decimals; a node that no step ends at and that is not the seed carries
\* none.
C21_ActivationIsRoundedMax ==
    outputs.written => \A idx \in 1 .. Len(outputs.d3) :
        LET r == Projected(idx)
            d3 == outputs.d3[idx]
        IN \A k \in 1 .. Len(d3.nodes) :
              LET node == d3.nodes[k] IN
              IF r.seed_node # <<>> /\ node.id = r.seed_node[1].id
              THEN /\ node.retrieval_activation # <<>>
                   /\ NearestThousandth(node.retrieval_activation[1], r.seed.score)
              ELSE IF EnergiesInto(r, node.id) # {}
              THEN /\ node.retrieval_activation # <<>>
                   /\ NearestThousandth(node.retrieval_activation[1],
                                        GreatestOf(EnergiesInto(r, node.id)))
              ELSE node.retrieval_activation = <<>>

\* two paths meet in node 4 with different energies, the lower one last, and
\* the seed score has more than 3 decimals
C21_Witness ==
    /\ outputs.written
    /\ \E idx \in 1 .. Len(outputs.d3) :
          LET r == Projected(idx) IN
          /\ r.seed_node # <<>>
          /\ r.seed.score = <<1, 2>>
          /\ Len(r.paths) = 2
          /\ Len(r.paths[1].steps) = 2 /\ Len(r.paths[2].steps) = 2
          /\ r.paths[1].steps[1].to_node.id # r.paths[2].steps[1].to_node.id
          /\ r.paths[1].steps[2].transfer_energy = <<1, 2>>
          /\ r.paths[2].steps[2].transfer_energy = <<9, 64>>
          /\ \E k \in 1 .. Len(outputs.d3[idx].nodes) :
                /\ outputs.d3[idx].nodes[k].id = 4
                /\ outputs.d3[idx].nodes[k].retrieval_activation = << 707 >>

\* how many pieces of a text are the given piece
CountPiece(text, piece) == Cardinality({ k \in 1 .. Len(text) : text[k] = piece })

\* C22: for a result with n >= 1 paths, paths_combined of to_debug_cypher is
\* the UNION of the per-path queries, n arms "MATCH ... RETURN ..." joined by
\* n - 1 separators " UNION " (never one MATCH with several patterns), and it
\* is the empty text when n = 0.
C22_CombinedIsUnion ==
    outputs.written => \A idx \in 1 .. Len(outputs.cypher) :
        LET n == Len(Projected(idx).paths)
            combined == outputs.cypher[idx].paths_combined
        IN IF n = 0 THEN combined = <<>>
           ELSE /\ CountPiece(combined, "MATCH ") = n
                /\ CountPiece(combined, " RETURN ") = n
                /\ CountPiece(combined, " UNION ") = n - 1

\* the text made of the pieces
RECURSIVE Text(_)
Text(pieces) == IF pieces = <<>> THEN "" ELSE Head(pieces) \o Text(Tail(pieces))

\* a single-quoted literal with every backslash and every single quote escaped
SingleQuoted(value) ==
    << "'" >> \o Replace(Replace(value, "\\", << "\\", "\\" >>), "'", << "\\", "'" >>)
    \o << "'" >>

\* the query of path p (counted from 1) of result r with single-quoted ids
SingleQuotedQuery(r, p) ==
    LET ids == << SeedIdOf(r) >> \o [ n \in 1 .. Len(r.paths[p].steps) |->
                                       r.paths[p].steps[n].to_node.id ]
        name == "p" \o ToString(p - 1)
    IN << "MATCH ", name, " = " >>
       \o JoinPieces([ n \in 1 .. Len(ids) |->
                         << "(", "n" \o ToString(p - 1) \o "_" \o ToString(n - 1), " {id: " >>
                         \o SingleQuoted(IdString(ids[n])) \o << "})" >> ],
                     "-[:RELATES]-", 1)
       \o << " RETURN ", name >>

\* C23: every query of to_debug_cypher carries each node id as a
\* single-quoted literal with every backslash and single quote of the id
\* escaped; for the one-step path from seed T3000 to T3002 the first query is
\* MATCH p0 = (n0_0 {id: 'T3000'})-[:RELATES]-(n0_1 {id: 'T3002'}) RETURN p0
C23_SingleQuotedIds ==
    outputs.written => \A idx \in 1 .. Len(outputs.cypher) :
        LET r == Projected(idx)
            queries == outputs.cypher[idx].individual_paths
        IN /\ Len(queries) = Len(r.paths)
           /\ \A p \in 1 .. Len(queries) :
                  Text(queries[p]) = Text(SingleQuotedQuery(r, p))
           /\ ( /\ Len(r.paths) >= 1
                /\ Len(r.paths[1].steps) = 1
                /\ SeedIdOf(r) = 1
                /\ r.paths[1].steps[1].to_node.id = 2 )
              => Text(queries[1])
                 = "MATCH p0 = (n0_0 {id: 'T3000'})-[:RELATES]-(n0_1 {id: 'T3002'}) RETURN p0"

\* ------------------------------------------------------------------------
\* The guards of retrieve
\* ------------------------------------------------------------------------
\* the query is empty or holds nothing but whitespace
OnlyWhitespace(q) == \A k \in 1 .. Len(q) : q[k] = " "

\* retrieve is over, by a return or by an exception
RetrieveOver == rv.pc \in {"returned", "raised"}

\* C24 (as stated): retrieve returns the empty list without a call of the
\* embedding provider or of the vector store when user_query is empty or
\* whitespace-only or limit <= 0; in every other case both are called exactly
\* once, the embedding first.
C24_BothCalledOnce ==
    /\ (OnlyWhitespace(rv.user_query) \/ rv.limit <= 0) =>
           /\ rv.calls = <<>>
           /\ rv.pc \in {"called", "returned"}
           /\ rv.seeds = <<>>
    /\ (RetrieveOver /\ ~(OnlyWhitespace(rv.user_query) \/ rv.limit <= 0)) =>
           rv.calls = << "create_embedding", "hybrid_search" >>

\* C24 (amended): as stated for the guarded cases; in every other case the
\* embedding provider is called exactly once and, unless that call fails, the
\* vector store is then called exactly once.
C24_EmbeddingThenSearch ==
    /\ (OnlyWhitespace(rv.user_query) \/ rv.limit <= 0) =>
           /\ rv.calls = <<>>
           /\ rv.pc \in {"called", "returned"}
           /\ rv.seeds = <<>>
    /\ (RetrieveOver /\ ~(OnlyWhitespace(rv.user_query) \/ rv.limit <= 0)) =>
           \/ rv.calls = << "create_embedding", "hybrid_search" >>
           \/ rv.pc = "raised" /\ rv.calls = << "create_embedding" >>

\* a whitespace-only query with a positive limit was turned away
C24_Witness ==
    /\ rv.pc = "returned"
    /\ rv.user_query = << " ", " " >>
    /\ rv.limit = 1
    /\ rv.calls = <<>>

\* ------------------------------------------------------------------------
\* Completed paths
\* ------------------------------------------------------------------------
\* the steps of the paths of a sequence of ExploredPath
StepsOfPaths(paths) == [k \in 1 .. Len(paths) |-> paths[k].steps]

\* the paths of the entries of `frontier` that are nonempty and, when `next`
\* is a frontier, have no entry of `next` hanging under them, in frontier order
RECURSIVE LeafPaths(_, _, _)
LeafPaths(frontier, next, k) ==
    IF k > Len(frontier) THEN <<>>
    ELSE LET path == frontier[k].path
             extended == \E n \in 1 .. Len(next) :
                            /\ Len(next[n].path) = Len(path) + 1
                            /\ SubSeq(next[n].path, 1, Len(path)) = path
         IN (IF path # <<>> /\ ~extended THEN << path >> ELSE <<>>)
            \o LeafPaths(frontier, next, k + 1)

\* task i takes a depth iteration in this step
IterationStep(i) ==
    /\ t_pc[i] = "expand"
    /\ t_bfs'[i].depth = t_bfs[i].depth + 1

\* C25: a depth iteration appends to completed_paths, in frontier order, the
\* paths of exactly those frontier entries that got no accepted branch and
\* have a nonempty path; when the loop is over the result lists
\* completed_paths followed by the path of every remaining frontier entry
\* with a nonempty path, in frontier order, and no empty path.
C25_CompletedPaths ==
    /\ [][ \A i \in Tasks : IterationStep(i) =>
              StepsOfPaths(t_bfs'[i].completed_paths)
              = StepsOfPaths(t_bfs[i].completed_paths)
                \o LeafPaths(t_bfs[i].frontier, t_bfs'[i].frontier, 1) ]_vars
    /\ [](\A i \in Tasks : (t_pc[i] \in {"commit", "done"} /\ t_result[i].seed_found) =>
              /\ ResultPaths(i) = StepsOfPaths(t_bfs[i].completed_paths)
                                  \o LeafPaths(t_bfs[i].frontier, <<>>, 1)
              /\ \A k \in 1 .. Len(t_result[i].paths) : t_result[i].paths[k].steps # <<>>)

\* an exploration ended with a path completed at a dead end inside the last
\* iteration and another one cut by the depth cap
C25_Witness ==
    \E i \in Tasks :
        /\ t_pc[i] = "done"
        /\ t_bfs[i].completed_paths # <<>>
        /\ t_bfs[i].frontier # <<>>
        /\ Len(t_result[i].paths) = Len(t_bfs[i].completed_paths) + Len(t_bfs[i].frontier)

\* ------------------------------------------------------------------------
\* Collisions, skipped candidates, retries, cancellation, maximal branches
\* ------------------------------------------------------------------------
\* the energies of the candidates of parent number k of the expanded frontier
\* for neighbour x
CandidateEnergies(i, k, x) ==
    { t_round[i].records[n].transfer_energy :
        n \in { m \in 1 .. Len(t_round[i].records) :
                  /\ t_round[i].records[m].parent_id = t_round[i].frontier[k].node_id
                  /\ t_round[i].records[m].neighbor_id = x } }

\* the position in the expanded frontier of the parent of new entry k
ParentPos(i, k) ==
    CHOOSE w \in 1 .. Len(t_round[i].frontier) :
        t_round[i].frontier[w].node_id
            = ParentId(seeds[i].node_id, t_bfs[i].frontier[k].path)

\* energy x is greater than energy y
Higher(x, y) == x[1] * y[2] > y[1] * x[2]

ClaimedBefore(i, k) ==
    { t_bfs[i].frontier[n].node_id :
        n \in { m \in 1 .. Len(t_bfs[i].frontier) :
                  /\ t_bfs[i].frontier[m].path # <<>>
                  /\ ParentPos(i, m) < k } }

\* the candidates of parent number k, in adapter order
CandidatesOf(i, k) ==
    SelectSeq(t_round[i].records,
              LAMBDA r : r.parent_id = t_round[i].frontier[k].node_id)

\* the candidates of parent number k that no earlier parent has claimed, each
\* neighbour once, in adapter order
Unclaimed(i, k) ==
    LET open == SelectSeq(CandidatesOf(i, k),
                          LAMBDA r : r.neighbor_id \notin ClaimedBefore(i, k))
        firsts == FirstPerNeighbour(open)
    IN [ n \in 1 .. Len(firsts) |-> firsts[n].rec ]

\* the last steps of the new frontier entries under parent number k, in
\* frontier order
AcceptedBy(i, k) ==
    LET mine == SelectSeq(t_bfs[i].frontier,
                          LAMBDA f : /\ f.path # <<>>
                                     /\ ParentId(seeds[i].node_id, f.path)
                                            = t_round[i].frontier[k].node_id)
    IN [ n \in 1 .. Len(mine) |-> mine[n].path[Len(mine[n].path)] ]

\* task i has just run a depth iteration
RoundDone(i) ==
    /\ t_pc[i] \in {"expand", "commit", "done"}
    /\ t_bfs[i].depth >= 1

\* C27: a candidate skipped because an earlier parent of the same iteration
\* claimed its neighbour does not count toward the cap: every parent accepts
\* the first max_branches of its candidates that no earlier parent claimed
\* (all of them when there are fewer), in adapter order.
C27_SkippedNotCounted ==
    \A i \in Tasks : RoundDone(i) =>
        \A k \in 1 .. Len(t_round[i].frontier) :
            LET open == Unclaimed(i, k)
                n == IF Len(open) < cfg.max_branches THEN Len(open) ELSE cfg.max_branches
            IN AcceptedBy(i, k)
               = [ m \in 1 .. n |->
                     [ node |-> open[m].neighbor_id, edge |-> open[m].edge_id,
                       transfer_energy |-> open[m].transfer_energy ] ]

\* a parent whose candidate list holds a neighbour claimed by an earlier
\* parent accepted max_branches candidates, one of them listed after the
\* skipped one
C27_Witness ==
    \E i \in Tasks : RoundDone(i) /\
        \E k \in 1 .. Len(t_round[i].frontier) :
            LET cands == CandidatesOf(i, k) IN
            /\ cfg.max_branches >= 1
            /\ Len(AcceptedBy(i, k)) = cfg.max_branches
            /\ \E a, b \in 1 .. Len(cands) :
                   /\ a < b
                   /\ cands[a].neighbor_id \in ClaimedBefore(i, k)
                   /\ \E m \in 1 .. Len(AcceptedBy(i, k)) :
                          AcceptedBy(i, k)[m].node = cands[b].neighbor_id

\* the initial traversal state: the seed with an empty path, only the seed
\* visited, no completed path
FreshTraversal(seed) ==
    [ frontier |-> << [ node_id |-> seed.node_id, activation |-> seed.score, path |-> <<>> ] >>,
      visited |-> {seed.node_id},
      completed_paths |-> <<>>,
      depth |-> 0 ]

\* the results of a first attempt that succeeds
FirstAttemptResults(seed) ==
    IF seed.node_id \in NodeIds THEN SoloRuns(seed, FreshTraversal(seed))
    ELSE { SeedNotFoundResult(seed) }

\* C28: every attempt opens a session of its own and holds nothing of an
\* earlier attempt; its traversal starts from frontier = [seed with empty
\* path], visited = {seed id}, no completed paths; the result obtained after
\* failed attempts is a result of a first attempt that succeeds.
C28_RetryStartsFresh ==
    /\ [][ \A i \in Tasks :
              /\ (t_tries'[i] = t_tries[i] + 1) =>
                     /\ ~t_session[i] /\ t_session'[i]
                     /\ t_bfs'[i].frontier = <<>> /\ t_bfs'[i].visited = {}
                     /\ t_bfs'[i].completed_paths = <<>>
                     /\ t_result'[i].paths = <<>>
              /\ (t_pc[i] = "seed" /\ t_pc'[i] \in {"expand", "commit"}
                  /\ seeds[i].node_id \in NodeIds) =>
                     t_bfs'[i] = FreshTraversal(seeds[i]) ]_vars
    /\ [](\A i \in Tasks : (t_pc[i] \in {"commit", "done"} /\ t_tries[i] >= 2) =>
              t_result[i] \in FirstAttemptResults(seeds[i]))

\* a second attempt, after a failed one and its backoff, returned two-hop paths
C28_Witness ==
    \E i \in Tasks :
        /\ t_pc[i] = "done"
        /\ t_tries[i] = 2
        /\ t_sleep[i] # <<>>
        /\ t_result[i].max_depth_reached = 2

\* C29: a cancelled task is not retried: the step that delivers the
\* cancellation, in a store call or in a backoff sleep, ends the task without
\* another attempt and without a change of its attempt counter; the task stays
\* cancelled and none of the yielded results is its own.
C29_CancelNotRetried ==
    /\ [][ \A i \in Tasks :
              /\ (t_cancel[i] /\ t_pc'[i] # t_pc[i]) =>
                     /\ t_pc'[i] = "cancelled"
                     /\ t_tries'[i] = t_tries[i]
                     /\ t_attempt'[i] = t_attempt[i]
                     /\ t_sleep'[i] = t_sleep[i]
                     /\ ~t_session'[i]
              /\ t_pc[i] = "cancelled" =>
                     /\ t_pc'[i] = "cancelled"
                     /\ t_tries'[i] = t_tries[i] ]_vars
    /\ [](\A i \in Tasks : t_pc[i] = "cancelled" =>
              /\ t_result[i] = NoResult
              /\ \A y \in 1 .. Len(yielded) : yielded[y].task # i)

\* a task was cancelled in its backoff sleep with a retry left, another in a
\* store call of its first attempt
C29_Witness ==
    \E i, j \in Tasks :
        /\ t_pc[i] = "cancelled" /\ t_pc[j] = "cancelled"
        /\ t_sleep[i] # <<>> /\ t_tries[i] = 1 /\ t_attempt[i] < cfg.max_retries
        /\ t_sleep[j] = <<>> /\ t_tries[j] = 1

\* the node ids the paths of a result reach
NodesInPaths(paths) ==
    UNION { { paths[k].steps[n].node : n \in 1 .. Len(paths[k].steps) } :
            k \in 1 .. Len(paths) }

\* p is a proper prefix of q
ProperPrefix(p, q) == Len(p) < Len(q) /\ SubSeq(q, 1, Len(p)) = p

\* C30: the returned paths are the maximal branches of the exploration tree:
\* no returned path is a proper prefix of another one, and the node ids in
\* the returned paths are exactly the visited ids without the seed.
C30_MaximalBranches ==
    \A i \in Tasks : (t_pc[i] \in {"commit", "done"} /\ t_result[i].seed_found) =>
        LET paths == t_result[i].paths IN
        /\ \A a, b \in 1 .. Len(paths) : ~ProperPrefix(paths[a].steps, paths[b].steps)
        /\ NodesInPaths(paths) = t_bfs[i].visited \ {seeds[i].node_id}

\* an exploration returned a one-step dead end next to a two-step path, four
\* nodes visited
C30_Witness ==
    \E i \in Tasks :
        /\ t_pc[i] = "done"
        /\ \E a, b \in 1 .. Len(t_result[i].paths) :
               /\ Len(t_result[i].paths[a].steps) = 1
               /\ Len(t_result[i].paths[b].steps) = 2
        /\ Cardinality(t_bfs[i].visited) = 4
        /\ Cardinality(NodesInPaths(t_result[i].paths)) = 3

====
